---- MODULE Spec2Model ----
(***************************************************************************)
(* Verification model of the remote-protocol-control RPC runtime.          *)
(*                                                                         *)
(* Two peers ("cli" and "srv") run the same code (rpc_transport.c,         *)
(* rpc_link.c).  Application threads on "cli" call rpc_request and         *)
(* rpc_stream; "srv" registers handlers (examples/ping_pong.c).            *)
(*                                                                         *)
(* Bytes are naturals 0..255, strings are tuples of character codes.       *)
(* A pointer to a caller's response buffer / length variable is the        *)
(* caller's id; NULL is 0.                                                 *)
(***************************************************************************)
EXTENDS Integers, Sequences, FiniteSets, TLC

(* ------------------------------------------------------------------ *)
(* Program constants                                                    *)
(* ------------------------------------------------------------------ *)

\* rpc_errors.h
RPC_SUCCESS == 0
RPC_ERROR == -1
RPC_ERROR_OVERFLOW == -2
RPC_ERROR_TIMEOUT == -3
RPC_ERROR_INVALID_ARGS == -4

\* rpc_transport.h: message types (0x0B, 0x0C, 0x16, 0x21)
MSG_REQ == 11
MSG_STREAM == 12
MSG_RESP == 22
MSG_ERR == 33

\* rpc_config.h
MIN_FUNC_NAME_LEN == 1
MAX_FUNC_NAME_LEN == 32
MAX_FUNC_ARGS_RESP_SIZE == 64
RPC_WORKER_COUNT == 1

\* rpc_link.h
TYPE_MSG_SIZE == 1
SEQ_MSG_SIZE == 1
TERM_SIZE == 1
MIN_PAYLOAD_SIZE == TYPE_MSG_SIZE + SEQ_MSG_SIZE + MIN_FUNC_NAME_LEN + TERM_SIZE
MAX_PAYLOAD_SIZE ==
    TYPE_MSG_SIZE + SEQ_MSG_SIZE + MAX_FUNC_NAME_LEN + TERM_SIZE + MAX_FUNC_ARGS_RESP_SIZE

\* uint8_t s_next_seq: the counter is 8 bits wide (values modulo 2^8)
SEQ_MOD == 256
\* rpc_trans_alloc_waiter: for (attempt = 0; attempt < 255; attempt++)
ALLOC_ATTEMPTS == 255

\* NULL as a pointer to a caller's buffer or length variable
NULL == 0
\* NULL as a pointer to bytes (a name, an argument buffer)
NULL_BYTES == <<-1>>

(* ------------------------------------------------------------------ *)
(* Bounds of the model.  The sizes of rpc_config.h are configuration    *)
(* parameters ("adjust these values according to your application");    *)
(* the model runs a small configuration of them.                        *)
(* ------------------------------------------------------------------ *)

\* REQ_TABLE_SIZE of rpc_config.h (8 there)
REQ_TABLE_SIZE == 2
\* Q_LINK_TO_TRANS_DEPTH, Q_TRANS_TO_LINK_DEPTH, Q_RPC_REQUEST_DEPTH (16 there)
Q_LINK_TO_TRANS_DEPTH == 2
Q_TRANS_TO_LINK_DEPTH == 2
Q_RPC_REQUEST_DEPTH == 2
\* frames the PHY pipe holds between a write and the peer's read
WireCap == 1
\* application threads calling rpc_request / rpc_stream on "cli"
NumCallers == 2
\* calls of rpc_request made in one run
MaxCalls == 2
\* calls of rpc_stream made in one run
MaxStreams == 3

Node == {"cli", "srv"}
Peer(n) == IF n = "cli" THEN "srv" ELSE "cli"
Callers == 1..NumCallers
\* the application threads there are: one more than the waiter table has slots
AllCallers == 1..(REQ_TABLE_SIZE + 1)
Slots == 1..REQ_TABLE_SIZE
Workers == 1..RPC_WORKER_COUNT
MsgTypes == {MSG_REQ, MSG_RESP, MSG_ERR, MSG_STREAM}

(* ------------------------------------------------------------------ *)
(* Strings of the program and of the example                            *)
(* ------------------------------------------------------------------ *)

\* "ping", "nope", "log"
NAME_PING == <<112, 105, 110, 103>>
NAME_NOPE == <<110, 111, 112, 101>>
NAME_LOG == <<108, 111, 103>>
\* "pong"
STR_PONG == <<112, 111, 110, 103>>
\* "NOFUNC", "OVERFLOW", "INVALID_ARGS", "TIMEOUT", "FAIL"
STR_NOFUNC == <<78, 79, 70, 85, 78, 67>>
STR_OVERFLOW == <<79, 86, 69, 82, 70, 76, 79, 87>>
STR_INVALID_ARGS == <<73, 78, 86, 65, 76, 73, 68, 95, 65, 82, 71, 83>>
STR_TIMEOUT == <<84, 73, 77, 69, 79, 85, 84>>
STR_FAIL == <<70, 65, 73, 76>>

Min(a, b) == IF a < b THEN a ELSE b

(* ------------------------------------------------------------------ *)
(* Transport codec                                                      *)
(* ------------------------------------------------------------------ *)

\* a builder that checks nothing
rpc_trans_build_msg_unchecked(type, seq, name, args, alen, olen) ==
    <<type, seq>> \o name \o <<0>>
        \o (IF alen > 0 /\ args # NULL_BYTES THEN SubSeq(args, 1, alen) ELSE <<>>)

\* The serialized payload; the empty tuple stands for the return value 0.
\* args is NULL_BYTES or a byte tuple holding at least alen bytes.
rpc_trans_build_msg(type, seq, name, args, alen, olen) ==
    IF name = NULL_BYTES THEN <<>>
    ELSE IF type \notin MsgTypes THEN <<>>
    ELSE LET nlen == Len(name)
             need == TYPE_MSG_SIZE + SEQ_MSG_SIZE + nlen + TERM_SIZE + alen
         IN  IF nlen < MIN_FUNC_NAME_LEN \/ nlen > MAX_FUNC_NAME_LEN THEN <<>>
             ELSE IF alen > MAX_FUNC_ARGS_RESP_SIZE THEN <<>>
             ELSE IF need < MIN_PAYLOAD_SIZE \/ need > MAX_PAYLOAD_SIZE THEN <<>>
             ELSE IF need > olen THEN <<>>
             ELSE <<type, seq>> \o name \o <<0>>
                    \o (IF alen > 0 /\ args # NULL_BYTES THEN SubSeq(args, 1, alen) ELSE <<>>)

\* a search that finds the last zero byte at or after offset 2
TermPos_last(in) ==
    IF \E i \in 3..Len(in) : in[i] = 0
    THEN CHOOSE i \in 3..Len(in) : in[i] = 0 /\ \A j \in (i + 1)..Len(in) : in[j] # 0
    ELSE 0

\* memchr(in + 2, '\0', ilen - 2): index of the first zero byte at or after
\* offset 2 (1-based position 3), 0 when there is none.
TermPos(in) ==
    IF \E i \in 3..Len(in) : in[i] = 0
    THEN CHOOSE i \in 3..Len(in) : in[i] = 0 /\ \A j \in 3..(i - 1) : in[j] # 0
    ELSE 0

ParseFail == [ok |-> FALSE, type |-> 0, seq |-> 0, name |-> <<>>, args |-> <<>>, alen |-> 0]

\* a parser that does not check the length of the name
rpc_trans_parse_msg_any_name(in) ==
    LET ilen == Len(in) IN
    IF ilen < MIN_PAYLOAD_SIZE \/ ilen > MAX_PAYLOAD_SIZE THEN ParseFail
    ELSE IF in[1] \notin MsgTypes THEN ParseFail
    ELSE IF TermPos(in) = 0 THEN ParseFail
    ELSE LET nlen == TermPos(in) - 3
             i == 2 + nlen + 1
         IN  IF ilen - i > MAX_FUNC_ARGS_RESP_SIZE THEN ParseFail
             ELSE [ok |-> TRUE, type |-> in[1], seq |-> in[2],
                   name |-> SubSeq(in, 3, 2 + nlen),
                   args |-> SubSeq(in, i + 1, ilen), alen |-> ilen - i]

rpc_trans_parse_msg(in) ==
    LET ilen == Len(in) IN
    IF ilen < MIN_PAYLOAD_SIZE \/ ilen > MAX_PAYLOAD_SIZE THEN ParseFail
    ELSE IF in[1] \notin MsgTypes THEN ParseFail
    ELSE IF 2 >= ilen THEN ParseFail
    ELSE IF TermPos(in) = 0 THEN ParseFail
    ELSE LET nlen == TermPos(in) - 3
             i == 2 + nlen + 1
         IN  IF nlen < MIN_FUNC_NAME_LEN \/ nlen > MAX_FUNC_NAME_LEN THEN ParseFail
             ELSE IF i > ilen THEN ParseFail
             ELSE IF ilen - i > MAX_FUNC_ARGS_RESP_SIZE THEN ParseFail
             ELSE [ok |-> TRUE, type |-> in[1], seq |-> in[2],
                   name |-> SubSeq(in, 3, 2 + nlen),
                   args |-> SubSeq(in, i + 1, ilen), alen |-> ilen - i]

(* ------------------------------------------------------------------ *)
(* State                                                                *)
(* ------------------------------------------------------------------ *)

VARIABLES
    s_next_seq,     \* [Node -> 1..255]   static counter of rpc_trans_alloc_waiter
    s_wait,         \* [Node -> [Slots -> waiter_t]]
    s_reg,          \* [Node -> Seq(reg_entry_t)]   (s_reg_count is its length)
    qLinkToTrans,   \* [Node -> Seq(payload)]
    qTransToLink,   \* [Node -> Seq(payload)]
    qRpcRequests,   \* [Node -> Seq(rpc_request_t)]
    wire,           \* [Node -> Seq(frame)]  the pipe node n writes, Peer(n) reads
    caller,         \* [Callers -> record]   application threads on "cli"
    trans,          \* [Node -> record]      ThreadTrans: position and locals
    worker,         \* [Node -> [Workers -> record]]  ThreadRPCWorker
    ncalls,         \* rpc_request calls started
    nstreams,       \* rpc_stream calls made
    handled,        \* [Node -> Seq] history: requests the workers processed, in order
    lost,           \* [Node -> Seq] history: requests ThreadTrans dropped, in order
    tev,            \* [Node -> record] history: what ThreadTrans did last
    P,              \* [Node -> record]  the parser context of rpc_link.c
    phy,            \* [Node -> Seq(byte)]  bytes in the PHY pipe towards node n
    lnk,            \* [Node -> record] history: items written to phy, payloads emitted
    reglog,         \* [Node -> Seq] history: the calls of register_fn and their results
    codec           \* a message built by rpc_trans_build_msg and parsed again

vars == <<s_next_seq, s_wait, s_reg, qLinkToTrans, qTransToLink, qRpcRequests,
          wire, caller, trans, worker, ncalls, nstreams, handled, lost, tev,
          P, phy, lnk, reglog, codec>>

\* waiter_t of a zero-initialised static table, after rpc_trans_init_waiter
Waiter0 == [in_use |-> FALSE, seq |-> 0, done |-> 0, result_code |-> 0,
            resp_buf |-> NULL, resp_len |-> NULL, resp_buf_cap |-> 0]

NoMsg == [type |-> 0, seq |-> 0, args |-> <<>>, over |-> FALSE]

Caller0 == [pc |-> "idle", name |-> NULL_BYTES, args |-> NULL_BYTES, alen |-> 0,
            buf |-> <<>>, len |-> 0, cap |-> 0, hasbuf |-> FALSE,
            seq |-> 0, w |-> 0, attempt |-> 0, lp |-> <<>>,
            rc |-> 0, how |-> "none", by |-> NoMsg, own |-> FALSE,
            tmo |-> 0, waitms |-> 0]

Trans0 == [pc |-> "recv", w |-> 0, type |-> 0, seq |-> 0, args |-> <<>>]
Worker0 == [pc |-> "recv", lp |-> <<>>]
Tev0 == [kind |-> "none", seq |-> 0, slot |-> 0, live |-> FALSE]

\* the parser context P after rpc_link_init: memset to zero, state WAIT_SOF.
\* payload holds the bytes of the buffer written so far (the rest is zero
\* and is never read: every read of the buffer takes payload_pos bytes)
P0 == [st |-> "WAIT_SOF", length |-> 0, hdr |-> <<0, 0, 0>>, payload_pos |-> 0,
       payload |-> <<>>]
\* rx: where ThreadRX is, reading PHY or inside the parser's os_queue_send
\* with the payload lp, and how often it has waited there
\* errs counts the calls of rpc_phy_receive that returned an error
Lnk0 == [sent |-> <<>>, got |-> <<>>,
         rx |-> [pc |-> "read", lp |-> <<>>, waits |-> 0, errs |-> 0]]
Codec0 == [pc |-> "idle", type |-> 0, seq |-> 0, name |-> <<>>, args |-> <<>>,
           alen |-> 0, out |-> <<>>, res |-> ParseFail]

Init ==
    /\ s_next_seq = [n \in Node |-> 1]
    /\ s_wait = [n \in Node |-> [i \in Slots |-> Waiter0]]
    /\ s_reg = [n \in Node |-> <<>>]
    /\ qLinkToTrans = [n \in Node |-> <<>>]
    /\ qTransToLink = [n \in Node |-> <<>>]
    /\ qRpcRequests = [n \in Node |-> <<>>]
    /\ wire = [n \in Node |-> <<>>]
    /\ caller = [c \in AllCallers |-> Caller0]
    /\ trans = [n \in Node |-> Trans0]
    /\ worker = [n \in Node |-> [k \in Workers |-> Worker0]]
    /\ ncalls = 0
    /\ nstreams = 0
    /\ handled = [n \in Node |-> <<>>]
    /\ lost = [n \in Node |-> <<>>]
    /\ tev = [n \in Node |-> Tev0]
    /\ P = [n \in Node |-> P0]
    /\ phy = [n \in Node |-> <<>>]
    /\ lnk = [n \in Node |-> Lnk0]
    /\ reglog = [n \in Node |-> <<>>]
    /\ codec = Codec0

(* ------------------------------------------------------------------ *)
(* Queues                                                               *)
(* ------------------------------------------------------------------ *)

\* a queue that puts a new item in front of the items it holds
os_queue_send_front(q, item) == <<item>> \o q

\* os_queue_send with room in the queue: the item is stored at the tail
\* (os_queue_recv takes from the head)
os_queue_send(q, item) == Append(q, item)

\* a queue that is never found full
os_queue_full_never(q, capacity) == FALSE

\* the test os_queue_send makes under the queue's mutex: q->count == q->capacity
os_queue_full(q, capacity) == Len(q) >= capacity

\* an os_queue_send that never waits
os_queue_send_waits_never(q, capacity, forever) == FALSE

\* os_queue_send keeps its caller waiting on not_full: the queue is full and
\* the timeout is not 0.  forever stands for the timeout: TRUE for
\* OS_WAIT_FOREVER (0xFFFFFFFF ms, taken as a wait that does not run out),
\* FALSE for 0
os_queue_send_waits(q, capacity, forever) ==
    os_queue_full(q, capacity) /\ forever

(* ------------------------------------------------------------------ *)
(* Waiter table                                                         *)
(* ------------------------------------------------------------------ *)

\* a counter that wraps to 0
NextSeq_through_zero(s) == (s + 1) % SEQ_MOD

\* s_next_seq++ on a uint8_t, then "if (s_next_seq == 0) s_next_seq = 1"
NextSeq(s) == IF (s + 1) % SEQ_MOD = 0 THEN 1 ELSE (s + 1) % SEQ_MOD

\* a scan that looks at the first slot only
FreeSlot_first_only(tbl) == IF ~tbl[1].in_use THEN 1 ELSE 0

\* the slot the scan of rpc_trans_alloc_waiter takes: the first free one, 0 if none
FreeSlot(tbl) ==
    IF \E i \in Slots : ~tbl[i].in_use
    THEN CHOOSE i \in Slots : ~tbl[i].in_use /\ \A j \in 1..(i - 1) : tbl[j].in_use
    ELSE 0

\* a lookup that returns the first slot of the table instead of NULL when
\* no in-use slot holds seq
rpc_trans_find_waiter_never_null(tbl, seq) ==
    IF \E i \in Slots : tbl[i].in_use /\ tbl[i].seq = seq
    THEN CHOOSE i \in Slots :
            /\ tbl[i].in_use /\ tbl[i].seq = seq
            /\ \A j \in (i + 1)..REQ_TABLE_SIZE : ~(tbl[j].in_use /\ tbl[j].seq = seq)
    ELSE 1

\* rpc_trans_find_waiter: the scan does not stop at a match, so the last
\* in-use slot holding seq is returned; 0 stands for NULL
rpc_trans_find_waiter(tbl, seq) ==
    IF \E i \in Slots : tbl[i].in_use /\ tbl[i].seq = seq
    THEN CHOOSE i \in Slots :
            /\ tbl[i].in_use /\ tbl[i].seq = seq
            /\ \A j \in (i + 1)..REQ_TABLE_SIZE : ~(tbl[j].in_use /\ tbl[j].seq = seq)
    ELSE 0

\* a rpc_trans_free_waiter that leaves the slot as it is
rpc_trans_free_waiter_keeps(tbl, w) == tbl

\* rpc_trans_free_waiter: in_use is cleared.  The seq of a free slot is never
\* read again (rpc_trans_find_waiter tests in_use first, the next allocation
\* overwrites it), so the model forgets it; every other field keeps its value
rpc_trans_free_waiter(tbl, w) == [tbl EXCEPT ![w].in_use = FALSE, ![w].seq = 0]

(* ------------------------------------------------------------------ *)
(* rpc_trans_request, one application thread c on "cli"                 *)
(* ------------------------------------------------------------------ *)

\* what a call passes: name, args, args_len, resp_buf, resp_len (with the
\* capacity the caller stored in *resp_len)
BigArgs == [i \in 1..(MAX_FUNC_ARGS_RESP_SIZE + 1) |-> 1]
InPing == [name |-> NAME_PING, args |-> NULL_BYTES, alen |-> 0, buf |-> TRUE, cap |-> 64,
           tmo |-> 1000]
InNope == [name |-> NAME_NOPE, args |-> NULL_BYTES, alen |-> 0, buf |-> TRUE, cap |-> 64,
           tmo |-> 1000]
InSmallCap == [name |-> NAME_PING, args |-> NULL_BYTES, alen |-> 0, buf |-> TRUE, cap |-> 10,
               tmo |-> 1000]
InBigArgs == [name |-> NAME_PING, args |-> BigArgs, alen |-> MAX_FUNC_ARGS_RESP_SIZE + 1,
              buf |-> TRUE, cap |-> 64, tmo |-> 1000]
ReqInputs == {InPing, InNope, InSmallCap, InBigArgs}

\* a validation without the check of *resp_len
ReqArgsValid_any_cap(in) ==
    /\ in.name # NULL_BYTES
    /\ Len(in.name) >= MIN_FUNC_NAME_LEN /\ Len(in.name) <= MAX_FUNC_NAME_LEN
    /\ in.buf

\* the argument validation at the head of rpc_trans_request
ReqArgsValid(in) ==
    /\ in.name # NULL_BYTES
    /\ Len(in.name) >= MIN_FUNC_NAME_LEN /\ Len(in.name) <= MAX_FUNC_NAME_LEN
    /\ in.buf
    /\ in.cap >= MAX_FUNC_ARGS_RESP_SIZE

\* the code returned when the validation fails
ReqInvalidCode == RPC_ERROR
\* the code returned when os_sem_take times out
ReqTimeoutCode == RPC_ERROR
\* the code returned when no waiter, no message or no queue room is to be had
ReqLocalFailCode == RPC_ERROR

\* entry of rpc_trans_request up to the allocation of a waiter; cost is what
\* the call takes from the run's budget of calls
ReqCall(c, in, cost) ==
    /\ caller[c].pc \in {"idle", "done"}
    /\ ncalls + cost <= MaxCalls
    /\ ncalls' = ncalls + cost
    /\ caller' = [caller EXCEPT ![c] =
          IF ReqArgsValid(in)
          THEN [Caller0 EXCEPT !.pc = "alloc", !.name = in.name, !.args = in.args,
                               !.alen = in.alen, !.len = in.cap, !.cap = in.cap,
                               !.hasbuf = in.buf, !.tmo = in.tmo]
          ELSE [Caller0 EXCEPT !.pc = "done", !.name = in.name, !.args = in.args,
                               !.alen = in.alen, !.len = in.cap, !.cap = in.cap,
                               !.hasbuf = in.buf, !.tmo = in.tmo,
                               !.rc = ReqInvalidCode, !.how = "invalid"]]
    /\ UNCHANGED <<s_next_seq, s_wait, s_reg, qLinkToTrans, qTransToLink, qRpcRequests,
                   wire, trans, worker, nstreams, handled, lost, tev,
                   P, phy, lnk, reglog, codec>>

\* one attempt of the loop of rpc_trans_alloc_waiter, under s_wait_mtx;
\* attempt is the loop's counter: the attempts that have failed
rpc_trans_alloc_waiter(c) ==
    /\ caller[c].pc = "alloc"
    /\ LET s == s_next_seq["cli"]
           i == FreeSlot(s_wait["cli"])
       IN  /\ s_next_seq' = [s_next_seq EXCEPT !["cli"] = NextSeq(s)]
           /\ IF i # 0
              THEN /\ s_wait' = [s_wait EXCEPT !["cli"][i].in_use = TRUE,
                                                !["cli"][i].seq = s]
                   /\ caller' = [caller EXCEPT ![c].pc = "init", ![c].seq = s,
                                               ![c].w = i]
              ELSE /\ s_wait' = s_wait
                   /\ caller' = [caller EXCEPT ![c] =
                         IF caller[c].attempt + 1 < ALLOC_ATTEMPTS
                         THEN [@ EXCEPT !.attempt = @ + 1]
                         ELSE [@ EXCEPT !.pc = "done", !.attempt = ALLOC_ATTEMPTS,
                                        !.rc = ReqLocalFailCode, !.how = "nowaiter"]]
    /\ UNCHANGED <<s_reg, qLinkToTrans, qTransToLink, qRpcRequests, wire, trans, worker,
                   ncalls, nstreams, handled, lost, tev,
                   P, phy, lnk, reglog, codec>>

\* "Initialize the waiter" and "Forming a message": the waiter's pointers and
\* capacity are stored without s_wait_mtx; a build failure frees the waiter
ReqInitBuild(c) ==
    /\ caller[c].pc = "init"
    /\ LET w == caller[c].w
           lp == rpc_trans_build_msg(MSG_REQ, caller[c].seq, caller[c].name,
                                     caller[c].args, caller[c].alen, MAX_PAYLOAD_SIZE)
           tbl == [s_wait["cli"] EXCEPT ![w].resp_buf = c, ![w].resp_len = c,
                                        ![w].resp_buf_cap = caller[c].len]
       IN  IF lp = <<>>
           THEN /\ s_wait' = [s_wait EXCEPT !["cli"] = rpc_trans_free_waiter(tbl, w)]
                /\ caller' = [caller EXCEPT ![c].pc = "done", ![c].rc = ReqLocalFailCode,
                                            ![c].how = "buildfail", ![c].seq = 0]
           ELSE /\ s_wait' = [s_wait EXCEPT !["cli"] = tbl]
                /\ caller' = [caller EXCEPT ![c].pc = "send", ![c].lp = lp]
    /\ UNCHANGED <<s_next_seq, s_reg, qLinkToTrans, qTransToLink, qRpcRequests, wire,
                   trans, worker, ncalls, nstreams, handled, lost, tev,
                   P, phy, lnk, reglog, codec>>

\* REQ_TIMEOUT_MS_DEFAULT of rpc_config.h
REQ_TIMEOUT_MS_DEFAULT == 200

\* a wait of the larger of the caller's timeout and the default
actual_timeout_max(timeout_ms) ==
    IF timeout_ms > REQ_TIMEOUT_MS_DEFAULT THEN timeout_ms ELSE REQ_TIMEOUT_MS_DEFAULT

\* actual_timeout = timeout_ms ? timeout_ms : REQ_TIMEOUT_MS_DEFAULT
actual_timeout(timeout_ms) ==
    IF timeout_ms # 0 THEN timeout_ms ELSE REQ_TIMEOUT_MS_DEFAULT

\* os_queue_send(qTransToLink, &lp, OS_WAIT_FOREVER): waits for room; then
\* the thread enters os_sem_take(w->done, actual_timeout)
ReqSend(c) ==
    /\ caller[c].pc = "send"
    /\ Len(qTransToLink["cli"]) < Q_TRANS_TO_LINK_DEPTH
    /\ qTransToLink' = [qTransToLink EXCEPT !["cli"] = os_queue_send(@, caller[c].lp)]
    /\ caller' = [caller EXCEPT ![c].pc = "wait", ![c].lp = <<>>,
                                ![c].waitms = actual_timeout(caller[c].tmo)]
    /\ UNCHANGED <<s_next_seq, s_wait, s_reg, qLinkToTrans, qRpcRequests, wire, trans,
                   worker, ncalls, nstreams, handled, lost, tev,
                   P, phy, lnk, reglog, codec>>

\* os_queue_send(qTransToLink, &lp, OS_WAIT_FOREVER) returns false: the queue
\* stayed full for the whole of the wait (OS_WAIT_FOREVER is a wait of
\* 0xFFFFFFFF ms in rpc_osal_linux.c); the waiter is freed and the call returns
ReqSendFail(c) ==
    /\ caller[c].pc = "send"
    /\ Len(qTransToLink["cli"]) = Q_TRANS_TO_LINK_DEPTH
    /\ s_wait' = [s_wait EXCEPT !["cli"] = rpc_trans_free_waiter(@, caller[c].w)]
    /\ caller' = [caller EXCEPT ![c].pc = "done", ![c].lp = <<>>,
                                ![c].rc = ReqLocalFailCode, ![c].how = "sendfail",
                                ![c].seq = 0]
    /\ UNCHANGED <<s_next_seq, s_reg, qLinkToTrans, qTransToLink, qRpcRequests, wire,
                   trans, worker, ncalls, nstreams, handled, lost, tev,
                   P, phy, lnk, reglog, codec>>

\* os_sem_take succeeds; the result code is read and the waiter freed
ReqWake(c) ==
    /\ caller[c].pc = "wait"
    /\ LET w == caller[c].w IN
       /\ s_wait["cli"][w].done = 1
       /\ s_wait' = [s_wait EXCEPT !["cli"] =
             rpc_trans_free_waiter([@ EXCEPT ![w].done = 0], w)]
       /\ caller' = [caller EXCEPT ![c].pc = "done",
                                   ![c].rc = s_wait["cli"][w].result_code,
                                   ![c].how = "woken"]
    /\ UNCHANGED <<s_next_seq, s_reg, qLinkToTrans, qTransToLink, qRpcRequests, wire,
                   trans, worker, ncalls, nstreams, handled, lost, tev,
                   P, phy, lnk, reglog, codec>>

\* os_sem_take returns false: the wait ran out with the semaphore empty
ReqTimeout(c) ==
    /\ caller[c].pc = "wait"
    /\ s_wait["cli"][caller[c].w].done = 0
    /\ caller' = [caller EXCEPT ![c].pc = "timedout"]
    /\ UNCHANGED <<s_next_seq, s_wait, s_reg, qLinkToTrans, qTransToLink, qRpcRequests,
                   wire, trans, worker, ncalls, nstreams, handled, lost, tev,
                   P, phy, lnk, reglog, codec>>

\* the timeout branch: rpc_trans_free_waiter(w); return
ReqTimeoutFree(c) ==
    /\ caller[c].pc = "timedout"
    /\ s_wait' = [s_wait EXCEPT !["cli"] = rpc_trans_free_waiter(@, caller[c].w)]
    /\ caller' = [caller EXCEPT ![c].pc = "done", ![c].rc = ReqTimeoutCode,
                                ![c].how = "timeout", ![c].seq = 0]
    /\ UNCHANGED <<s_next_seq, s_reg, qLinkToTrans, qTransToLink, qRpcRequests, wire,
                   trans, worker, ncalls, nstreams, handled, lost, tev,
                   P, phy, lnk, reglog, codec>>

(* ------------------------------------------------------------------ *)
(* rpc_trans_stream                                                     *)
(* ------------------------------------------------------------------ *)

\* the k-th stream of a run carries the byte k, so that streams can be told apart
StreamInputs == {[name |-> NAME_PING], [name |-> NAME_LOG]}

\* rpc_trans_stream: validation, build with seq 0, blocking enqueue, return
rpc_trans_stream(c, in) ==
    /\ caller[c].pc \in {"idle", "done"}
    /\ nstreams < MaxStreams
    /\ nstreams' = nstreams + 1
    /\ LET valid == /\ in.name # NULL_BYTES
                    /\ Len(in.name) >= MIN_FUNC_NAME_LEN
                    /\ Len(in.name) <= MAX_FUNC_NAME_LEN
           lp == rpc_trans_build_msg(MSG_STREAM, 0, in.name, <<nstreams + 1>>, 1,
                                     MAX_PAYLOAD_SIZE)
       IN  IF valid /\ lp # <<>>
           THEN /\ Len(qTransToLink["cli"]) < Q_TRANS_TO_LINK_DEPTH
                /\ qTransToLink' = [qTransToLink EXCEPT !["cli"] = os_queue_send(@, lp)]
                /\ caller' = [caller EXCEPT ![c] =
                      [Caller0 EXCEPT !.pc = "done", !.name = in.name,
                                      !.rc = RPC_SUCCESS, !.how = "stream"]]
           ELSE /\ qTransToLink' = qTransToLink
                /\ caller' = [caller EXCEPT ![c] =
                      [Caller0 EXCEPT !.pc = "done", !.name = in.name,
                                      !.rc = RPC_ERROR, !.how = "stream"]]
    /\ UNCHANGED <<s_next_seq, s_wait, s_reg, qLinkToTrans, qRpcRequests, wire, trans,
                   worker, ncalls, handled, lost, tev,
                   P, phy, lnk, reglog, codec>>

(* ------------------------------------------------------------------ *)
(* Registry                                                             *)
(* ------------------------------------------------------------------ *)

\* NUM_REG_FUNC of rpc_config.h (16 there): the capacity of s_reg
NUM_REG_FUNC == 3
\* calls of register_fn made on a node in one run of the request scenarios
MaxRegs == 1
\* the nodes that register handlers, and what they register (ping_pong.c)
RegNodes == {"srv"}
RegInputs == {[name |-> NAME_PING, fn |-> "handler_fn_ping"]}
\* registrations tried when the registry itself is exercised: a name, the
\* same name with another handler, another name
RegInputsAll == {[name |-> NAME_PING, fn |-> "handler_fn_ping"],
                 [name |-> NAME_PING, fn |-> "handler_fail"],
                 [name |-> NAME_LOG, fn |-> "handler_fn_ping"]}
RegNames == {NAME_PING, NAME_LOG, NAME_NOPE}

\* strncmp(a, b, n) == 0 for strings without embedded zero bytes
StrnEq(a, b, n) == SubSeq(a, 1, Min(Len(a), n)) = SubSeq(b, 1, Min(Len(b), n))

\* a lookup in which the last matching entry wins
find_reg_last_match(reg, name) ==
    IF \E i \in 1..Len(reg) : StrnEq(reg[i].name, name, MAX_FUNC_NAME_LEN)
    THEN CHOOSE i \in 1..Len(reg) :
            /\ StrnEq(reg[i].name, name, MAX_FUNC_NAME_LEN)
            /\ \A j \in (i + 1)..Len(reg) : ~StrnEq(reg[j].name, name, MAX_FUNC_NAME_LEN)
    ELSE 0

\* find_reg: index of the first entry whose name matches, 0 when none
\* (the code returns RPC_ERROR, i.e. -1, for "not found" and a 0-based index)
find_reg(reg, name) ==
    IF \E i \in 1..Len(reg) : StrnEq(reg[i].name, name, MAX_FUNC_NAME_LEN)
    THEN CHOOSE i \in 1..Len(reg) :
            /\ StrnEq(reg[i].name, name, MAX_FUNC_NAME_LEN)
            /\ \A j \in 1..(i - 1) : ~StrnEq(reg[j].name, name, MAX_FUNC_NAME_LEN)
    ELSE 0

\* register_fn (called by rpc_register, which returns its result): the entry
\* is stored at s_reg[s_reg_count] when s_reg_count is below the capacity.
\* The history records the call: the entry, the count before and after, whether
\* an entry of that name was registered before the call, and the result
register_fn(n, e) ==
    /\ LET room == Len(s_reg[n]) < NUM_REG_FUNC IN
       /\ s_reg' = [s_reg EXCEPT ![n] = IF room THEN Append(@, e) ELSE @]
       /\ reglog' = [reglog EXCEPT ![n] = Append(@,
             [name |-> e.name, fn |-> e.fn, count |-> Len(s_reg[n]),
              after |-> IF room THEN Len(s_reg[n]) + 1 ELSE Len(s_reg[n]),
              dup |-> find_reg(s_reg[n], e.name) # 0,
              rc |-> IF room THEN RPC_SUCCESS ELSE RPC_ERROR])]
    /\ UNCHANGED <<s_next_seq, s_wait, qLinkToTrans, qTransToLink, qRpcRequests, wire,
                   caller, trans, worker, ncalls, nstreams, handled, lost, tev,
                   P, phy, lnk, codec>>

(* ------------------------------------------------------------------ *)
(* ThreadTrans and rpc_trans_handle_incoming                            *)
(* ------------------------------------------------------------------ *)

\* a transport thread that sends to qRpcRequests with OS_WAIT_FOREVER
ReqSendWaitsForever_blocking == TRUE

\* the timeout of os_queue_send(qRpcRequests, &req, 0) in
\* rpc_trans_handle_incoming: 0, not OS_WAIT_FOREVER
ReqSendWaitsForever == FALSE

\* memcpy(dst, src, n) on a buffer whose written bytes are old
MemCpy(old, src, n) == SubSeq(src, 1, n) \o SubSeq(old, n + 1, Len(old))

\* a test of the type that takes a RESP for a request
IsReply_err_only(type) == type = MSG_ERR

\* if (type == MSG_RESP || type == MSG_ERR): the message answers a request
IsReply(type) == type \in {MSG_RESP, MSG_ERR}

\* a payload is received and parsed; a REQ/STREAM is handed to the workers
\* (send with timeout 0), for a RESP/ERR the waiter is looked up under s_wait_mtx
TransRecv(n) ==
    /\ trans[n].pc = "recv"
    /\ qLinkToTrans[n] # <<>>
    /\ qLinkToTrans' = [qLinkToTrans EXCEPT ![n] = Tail(@)]
    /\ LET p == rpc_trans_parse_msg(Head(qLinkToTrans[n])) IN
       IF ~p.ok
       THEN /\ tev' = [tev EXCEPT ![n] = [kind |-> "parsefail", seq |-> 0, slot |-> 0,
                                               live |-> FALSE]]
            /\ UNCHANGED <<trans, qRpcRequests, lost>>
       ELSE IF IsReply(p.type)
       THEN LET w == rpc_trans_find_waiter(s_wait[n], p.seq) IN
            IF w = 0
            THEN /\ tev' = [tev EXCEPT ![n] =
                       [kind |-> "nowaiter", seq |-> p.seq, slot |-> 0, live |-> FALSE]]
                 /\ UNCHANGED <<trans, qRpcRequests, lost>>
            ELSE /\ trans' = [trans EXCEPT ![n] =
                       [pc |-> "complete", w |-> w, type |-> p.type, seq |-> p.seq,
                        args |-> p.args]]
                 /\ tev' = [tev EXCEPT ![n] =
                       [kind |-> "found", seq |-> p.seq, slot |-> w, live |-> TRUE]]
                 /\ UNCHANGED <<qRpcRequests, lost>>
       ELSE LET req == [type |-> p.type, seq |-> p.seq,
                        name |-> SubSeq(p.name, 1, Min(Len(p.name), MAX_FUNC_NAME_LEN)),
                        args |-> p.args, alen |-> p.alen]
            IN  IF ~os_queue_full(qRpcRequests[n], Q_RPC_REQUEST_DEPTH)
                THEN /\ qRpcRequests' = [qRpcRequests EXCEPT ![n] = os_queue_send(@, req)]
                     /\ lost' = lost
                     /\ tev' = [tev EXCEPT ![n] =
                           [kind |-> "queued", seq |-> p.seq, slot |-> 0, live |-> FALSE]]
                     /\ UNCHANGED trans
                ELSE /\ ~os_queue_send_waits(qRpcRequests[n], Q_RPC_REQUEST_DEPTH,
                                              ReqSendWaitsForever)
                     /\ tev' = [tev EXCEPT ![n] =
                           [kind |-> "dropped", seq |-> p.seq, slot |-> 0, live |-> FALSE]]
                     /\ lost' = [lost EXCEPT ![n] = Append(@,
                           [type |-> p.type, seq |-> p.seq, args |-> p.args,
                            qlen |-> Len(qRpcRequests[n])])]
                     /\ UNCHANGED <<trans, qRpcRequests>>
    /\ UNCHANGED <<s_next_seq, s_wait, s_reg, qTransToLink, wire, caller, worker,
                   ncalls, nstreams, handled,
                   P, phy, lnk, reglog, codec>>

\* the waiter found is completed: the writes go through the pointers and the
\* capacity the slot holds now, without s_wait_mtx; then os_sem_give
TransComplete(n) ==
    /\ trans[n].pc = "complete"
    /\ LET w == trans[n].w
           slot == s_wait[n][w]
           args == trans[n].args
           alen == Len(args)
           rc == IF trans[n].type = MSG_RESP THEN RPC_SUCCESS ELSE RPC_ERROR
           over == alen > slot.resp_buf_cap
           msg == [type |-> trans[n].type, seq |-> trans[n].seq, args |-> args,
                   over |-> over]
           owns(c) == n = "cli" /\ caller[c].w = w /\ caller[c].pc \in {"init", "send", "wait"}
       IN  /\ s_wait' = [s_wait EXCEPT ![n][w].result_code =
                                IF over THEN RPC_ERROR_OVERFLOW ELSE rc,
                                       ![n][w].done = 1]
           /\ caller' = [c \in AllCallers |->
                 [caller[c] EXCEPT
                    !.buf = IF ~over /\ slot.resp_buf = c /\ alen > 0
                            THEN MemCpy(@, args, alen) ELSE @,
                    !.len = IF slot.resp_len = c
                            THEN (IF over THEN 0 ELSE alen) ELSE @,
                    !.by = IF owns(c) THEN msg ELSE @,
                    !.own = IF owns(c)
                            THEN caller[c].pc = "wait" /\ caller[c].seq = trans[n].seq
                            ELSE @]]
           /\ tev' = [tev EXCEPT ![n] =
                 [kind |-> IF over THEN "overflow" ELSE "completed",
                  seq |-> trans[n].seq, slot |-> w,
                  live |-> slot.in_use /\ slot.seq = trans[n].seq]]
    /\ trans' = [trans EXCEPT ![n] = Trans0]
    /\ UNCHANGED <<s_next_seq, s_reg, qLinkToTrans, qTransToLink, qRpcRequests, wire,
                   worker, ncalls, nstreams, handled, lost,
                   P, phy, lnk, reglog, codec>>

(* ------------------------------------------------------------------ *)
(* ThreadRPCWorker                                                      *)
(* ------------------------------------------------------------------ *)

\* handlers of type rpc_fn_t an application may register, by what they
\* return: a success code above zero with output; each error code of
\* rpc_errors.h; an error code that has no name there; RPC_SUCCESS with an
\* output length above the capacity they were given
StubHandlers ==
    [handler_ok_positive |-> [rc |-> 1, out |-> STR_PONG, olen |-> 4],
     handler_overflow |-> [rc |-> RPC_ERROR_OVERFLOW, out |-> <<>>, olen |-> 0],
     handler_invalid_args |-> [rc |-> RPC_ERROR_INVALID_ARGS, out |-> <<>>, olen |-> 0],
     handler_timeout |-> [rc |-> RPC_ERROR_TIMEOUT, out |-> <<>>, olen |-> 0],
     handler_other |-> [rc |-> -7, out |-> <<>>, olen |-> 0],
     handler_big_olen |-> [rc |-> RPC_SUCCESS,
                           out |-> [i \in 1..MAX_FUNC_ARGS_RESP_SIZE |-> 1],
                           olen |-> MAX_FUNC_ARGS_RESP_SIZE + 1],
     handler_big_olen_timeout |-> [rc |-> RPC_ERROR_TIMEOUT,
                                   out |-> [i \in 1..MAX_FUNC_ARGS_RESP_SIZE |-> 1],
                                   olen |-> MAX_FUNC_ARGS_RESP_SIZE + 1]]

\* a registered handler called with (args, alen, out, out_capacity, &olen);
\* olen is 0 on entry.  handler_fn_ping is the handler of examples/ping_pong.c;
\* a handler the model does not know otherwise returns RPC_ERROR
Handler(fn, args, alen, out_capacity) ==
    IF fn = "handler_fn_ping"
    THEN IF Len(STR_PONG) > out_capacity
         THEN [rc |-> RPC_ERROR_OVERFLOW, out |-> <<>>, olen |-> 0]
         ELSE [rc |-> RPC_SUCCESS, out |-> STR_PONG, olen |-> Len(STR_PONG)]
    ELSE IF fn \in DOMAIN StubHandlers THEN StubHandlers[fn]
    ELSE [rc |-> RPC_ERROR, out |-> <<>>, olen |-> 0]

\* tags that leave out "OVERFLOW"
ErrTag_no_overflow(idx, rc) ==
    IF idx = 0 THEN STR_NOFUNC
    ELSE IF rc = RPC_ERROR_INVALID_ARGS THEN STR_INVALID_ARGS
    ELSE IF rc = RPC_ERROR_TIMEOUT THEN STR_TIMEOUT
    ELSE STR_FAIL

\* the tag of an ERR reply
ErrTag(idx, rc) ==
    IF idx = 0 THEN STR_NOFUNC
    ELSE IF rc = RPC_ERROR_OVERFLOW THEN STR_OVERFLOW
    ELSE IF rc = RPC_ERROR_INVALID_ARGS THEN STR_INVALID_ARGS
    ELSE IF rc = RPC_ERROR_TIMEOUT THEN STR_TIMEOUT
    ELSE STR_FAIL

\* a worker that builds a reply whatever the type of the request is
WorkerProcess_replies_to_streams(reg, req) ==
    LET idx == find_reg(reg, req.name)
        called == idx # 0 /\ reg[idx].fn # "NULL"
        h == IF called
             THEN Handler(reg[idx].fn, req.args, req.alen, MAX_FUNC_ARGS_RESP_SIZE)
             ELSE [rc |-> RPC_ERROR, out |-> <<>>, olen |-> 0]
        bad == h.olen > MAX_FUNC_ARGS_RESP_SIZE
        rc == IF bad THEN RPC_ERROR_OVERFLOW ELSE h.rc
        olen == IF bad THEN 0 ELSE h.olen
        lp == IF rc = RPC_SUCCESS
              THEN rpc_trans_build_msg(MSG_RESP, req.seq, req.name, h.out, olen,
                                       MAX_PAYLOAD_SIZE)
              ELSE rpc_trans_build_msg(MSG_ERR, req.seq, req.name, ErrTag(idx, rc),
                                       Len(ErrTag(idx, rc)), MAX_PAYLOAD_SIZE)
    IN  [idx |-> idx, called |-> called, rc |-> rc, out |-> SubSeq(h.out, 1, olen),
         olen |-> olen, lp |-> lp, hrc |-> h.rc, holen |-> h.olen]

\* what the worker does with a request record: the lookup, the call, the
\* overflow insurance and the reply it builds (<<>> when it sends none);
\* hrc and holen are the code and the output length the handler returned
WorkerProcess(reg, req) ==
    LET idx == find_reg(reg, req.name)
        called == idx # 0 /\ reg[idx].fn # "NULL"
        h == IF called
             THEN Handler(reg[idx].fn, req.args, req.alen, MAX_FUNC_ARGS_RESP_SIZE)
             ELSE [rc |-> RPC_ERROR, out |-> <<>>, olen |-> 0]
        bad == h.olen > MAX_FUNC_ARGS_RESP_SIZE
        rc == IF bad THEN RPC_ERROR_OVERFLOW ELSE h.rc
        olen == IF bad THEN 0 ELSE h.olen
        lp == IF req.type # MSG_REQ THEN <<>>
              ELSE IF rc = RPC_SUCCESS
              THEN rpc_trans_build_msg(MSG_RESP, req.seq, req.name, h.out, olen,
                                       MAX_PAYLOAD_SIZE)
              ELSE rpc_trans_build_msg(MSG_ERR, req.seq, req.name, ErrTag(idx, rc),
                                       Len(ErrTag(idx, rc)), MAX_PAYLOAD_SIZE)
    IN  [idx |-> idx, called |-> called, rc |-> rc, out |-> SubSeq(h.out, 1, olen),
         olen |-> olen, lp |-> lp, hrc |-> h.rc, holen |-> h.olen]

\* a request record is taken from qRpcRequests and processed
WorkerRecv(n, k) ==
    /\ worker[n][k].pc = "recv"
    /\ qRpcRequests[n] # <<>>
    /\ LET req == Head(qRpcRequests[n])
           r == WorkerProcess(s_reg[n], req)
       IN  /\ qRpcRequests' = [qRpcRequests EXCEPT ![n] = Tail(@)]
           /\ worker' = [worker EXCEPT ![n][k] =
                 IF r.lp # <<>> THEN [pc |-> "send", lp |-> r.lp] ELSE Worker0]
           /\ handled' = [handled EXCEPT ![n] = Append(@,
                 [type |-> req.type, seq |-> req.seq, name |-> req.name,
                  args |-> req.args, idx |-> r.idx, called |-> r.called,
                  rc |-> r.rc, out |-> r.out, olen |-> r.olen, lp |-> r.lp,
                  hrc |-> r.hrc, holen |-> r.holen])]
    /\ UNCHANGED <<s_next_seq, s_wait, s_reg, qLinkToTrans, qTransToLink, wire, caller,
                   trans, ncalls, nstreams, lost, tev,
                   P, phy, lnk, reglog, codec>>

\* os_queue_send(qTransToLink, &lp, OS_WAIT_FOREVER) of the reply
WorkerSend(n, k) ==
    /\ worker[n][k].pc = "send"
    /\ Len(qTransToLink[n]) < Q_TRANS_TO_LINK_DEPTH
    /\ qTransToLink' = [qTransToLink EXCEPT ![n] = os_queue_send(@, worker[n][k].lp)]
    /\ worker' = [worker EXCEPT ![n][k] = Worker0]
    /\ UNCHANGED <<s_next_seq, s_wait, s_reg, qLinkToTrans, qRpcRequests, wire, caller,
                   trans, ncalls, nstreams, handled, lost, tev,
                   P, phy, lnk, reglog, codec>>

(* ------------------------------------------------------------------ *)
(* ThreadTX and ThreadRX.  Here a frame in the pipe is named by the     *)
(* payload it carries, and it arrives intact.                           *)
(* ------------------------------------------------------------------ *)

\* a payload is taken from qTransToLink and rpc_link_build_frame writes its
\* frame to PHY, unless the length check of rpc_link_build_frame rejects it
ThreadTX(n) ==
    /\ qTransToLink[n] # <<>>
    /\ Len(wire[n]) < WireCap
    /\ qTransToLink' = [qTransToLink EXCEPT ![n] = Tail(@)]
    /\ LET m == Head(qTransToLink[n]) IN
       wire' = [wire EXCEPT ![n] =
          IF Len(m) > MAX_PAYLOAD_SIZE \/ Len(m) < MIN_PAYLOAD_SIZE THEN @
          ELSE Append(@, m)]
    /\ UNCHANGED <<s_next_seq, s_wait, s_reg, qLinkToTrans, qRpcRequests, caller, trans,
                   worker, ncalls, nstreams, handled, lost, tev,
                   P, phy, lnk, reglog, codec>>

\* the bytes of the next frame are read from PHY and fed to the parser, which
\* sends the payload to qLinkToTrans (OS_WAIT_FOREVER: it waits for room)
ThreadRX(n) ==
    /\ wire[Peer(n)] # <<>>
    /\ Len(qLinkToTrans[n]) < Q_LINK_TO_TRANS_DEPTH
    /\ qLinkToTrans' = [qLinkToTrans EXCEPT ![n] = os_queue_send(@, Head(wire[Peer(n)]))]
    /\ wire' = [wire EXCEPT ![Peer(n)] = Tail(@)]
    /\ UNCHANGED <<s_next_seq, s_wait, s_reg, qTransToLink, qRpcRequests, caller, trans,
                   worker, ncalls, nstreams, handled, lost, tev,
                   P, phy, lnk, reglog, codec>>

(* ------------------------------------------------------------------ *)
(* Link layer: CRC, frame builder and parser (rpc_link.c, rpc_crc8.c)   *)
(* ------------------------------------------------------------------ *)

\* rpc_link.h
SOF == 250
SOD == 251
EOF_ == 254
SOD_SIZE == 1
CRC_PKT_SIZE == 1
EOF_SIZE == 1
\* a limit that admits every value of the 16-bit length field
MAX_PKT_LEN_uint16 == 65535
MAX_PKT_LEN == SOD_SIZE + MAX_PAYLOAD_SIZE + CRC_PKT_SIZE + EOF_SIZE
MIN_PKT_LEN == SOD_SIZE + MIN_PAYLOAD_SIZE + CRC_PKT_SIZE + EOF_SIZE
\* rpc_crc8.h
CRC8_POLY == 7
CRC8_INIT == 0

\* a ^ b on the low k bits
RECURSIVE XorBits(_, _, _)
XorBits(a, b, k) ==
    IF k = 0 THEN 0
    ELSE (((a % 2) + (b % 2)) % 2) + 2 * XorBits(a \div 2, b \div 2, k - 1)

\* a ^ b on uint8_t
Xor8(a, b) == XorBits(a, b, 8)

\* the inner loop of crc8_compute: n times
\*   mask = (crc & 0x80) ? 0xFF : 0x00;  crc = (crc << 1) ^ (poly & mask)
RECURSIVE Crc8Shift(_, _, _)
Crc8Shift(crc, poly, n) ==
    IF n = 0 THEN crc
    ELSE Crc8Shift(Xor8((crc * 2) % 256, IF crc >= 128 THEN poly ELSE 0), poly, n - 1)

\* the outer loop of crc8_compute over the bytes lo .. hi, entered with crc
\* (the range is halved so that the evaluation does not nest len deep)
RECURSIVE Crc8Range(_, _, _, _, _)
Crc8Range(data, lo, hi, crc, poly) ==
    IF lo > hi THEN crc
    ELSE IF lo = hi THEN Crc8Shift(Xor8(crc, data[lo]), poly, 8)
    ELSE LET mid == (lo + hi) \div 2
             left == Crc8Range(data, lo, mid, crc, poly)
         IN  IF left >= 0 THEN Crc8Range(data, mid + 1, hi, left, poly) ELSE 0

crc8_compute(data, len, init, poly) == Crc8Range(data, 1, len, init, poly)

\* a builder that writes the payload length into the length field
rpc_link_build_frame_len(payload) ==
    LET len == Len(payload) IN
    IF len > MAX_PAYLOAD_SIZE \/ len < MIN_PAYLOAD_SIZE THEN <<>>
    ELSE LET L == len % 65536
             hdr == <<SOF, L % 256, L \div 256>>
         IN  hdr \o <<crc8_compute(hdr, 3, CRC8_INIT, CRC8_POLY), SOD>> \o payload
                 \o <<crc8_compute(<<SOD>> \o payload, len + 1, CRC8_INIT, CRC8_POLY), EOF_>>

\* rpc_link_build_frame: the bytes handed to rpc_phy_send, <<>> when the
\* length check rejects the payload
rpc_link_build_frame(payload) ==
    LET len == Len(payload) IN
    IF len > MAX_PAYLOAD_SIZE \/ len < MIN_PAYLOAD_SIZE THEN <<>>
    ELSE LET L == (len + 3) % 65536
             hdr == <<SOF, L % 256, L \div 256>>
         IN  hdr \o <<crc8_compute(hdr, 3, CRC8_INIT, CRC8_POLY), SOD>> \o payload
                 \o <<crc8_compute(<<SOD>> \o payload, len + 1, CRC8_INIT, CRC8_POLY), EOF_>>

\* a reset that leaves the parser waiting for a length byte
rpc_link_reset_parser_to_len(p) ==
    [p EXCEPT !.st = "READ_LEN1", !.payload_pos = 0, !.length = 0]

rpc_link_reset_parser(p) == [p EXCEPT !.st = "WAIT_SOF", !.payload_pos = 0, !.length = 0]

\* P.payload[P.payload_pos++] = b
StorePayload(p, b) ==
    [p EXCEPT !.payload = IF p.payload_pos + 1 <= Len(@)
                          THEN [@ EXCEPT ![p.payload_pos + 1] = b] ELSE Append(@, b),
              !.payload_pos = @ + 1]

\* a parser that sends the payload whatever byte follows the packet CRC
LinkWaitEof_any_byte(p, b) ==
    [p |-> rpc_link_reset_parser(p), out |-> <<SubSeq(p.payload, 1, p.payload_pos)>>]

\* case ST_WAIT_EOF: the payload is sent to qLinkToTrans if b is EOF; the
\* parser is reset in either case
LinkWaitEof(p, b) ==
    [p |-> rpc_link_reset_parser(p),
     out |-> IF b = EOF_ THEN <<SubSeq(p.payload, 1, p.payload_pos)>> ELSE <<>>]

\* one turn of the loop of rpc_link_feed_bytes: the byte b in parser context p;
\* out holds the payload sent to qLinkToTrans, if one is
LinkFeedByte(p, b) ==
    IF p.st = "WAIT_SOF"
    THEN IF b = SOF
         THEN [p |-> [p EXCEPT !.hdr[1] = b, !.st = "READ_LEN1"], out |-> <<>>]
         ELSE [p |-> p, out |-> <<>>]
    ELSE IF p.st = "READ_LEN1"
    THEN [p |-> [p EXCEPT !.hdr[2] = b, !.st = "READ_LEN2"], out |-> <<>>]
    ELSE IF p.st = "READ_LEN2"
    THEN LET q == [p EXCEPT !.hdr[3] = b, !.length = b * 256 + p.hdr[2]] IN
         IF q.length < MIN_PKT_LEN \/ q.length > MAX_PKT_LEN
         THEN [p |-> rpc_link_reset_parser(q), out |-> <<>>]
         ELSE [p |-> [q EXCEPT !.st = "READ_HDRCRC"], out |-> <<>>]
    ELSE IF p.st = "READ_HDRCRC"
    THEN IF crc8_compute(p.hdr, 3, CRC8_INIT, CRC8_POLY) # b
         THEN [p |-> rpc_link_reset_parser(p), out |-> <<>>]
         ELSE [p |-> [p EXCEPT !.st = "WAIT_SOD"], out |-> <<>>]
    ELSE IF p.st = "WAIT_SOD"
    THEN IF b = SOD
         THEN [p |-> [p EXCEPT !.payload_pos = 0, !.st = "READ_PAYLOAD"], out |-> <<>>]
         ELSE [p |-> rpc_link_reset_parser(p), out |-> <<>>]
    ELSE IF p.st = "READ_PAYLOAD"
    THEN IF p.payload_pos < MAX_PAYLOAD_SIZE /\ p.payload_pos < p.length - 3
         THEN LET q == StorePayload(p, b) IN
              [p |-> IF q.payload_pos = q.length - 3
                     THEN [q EXCEPT !.st = "READ_PKTCRC"] ELSE q,
               out |-> <<>>]
         ELSE [p |-> rpc_link_reset_parser(p), out |-> <<>>]
    ELSE IF p.st = "READ_PKTCRC"
    THEN IF crc8_compute(<<SOD>> \o SubSeq(p.payload, 1, p.payload_pos),
                         p.payload_pos + 1, CRC8_INIT, CRC8_POLY) # b
         THEN [p |-> rpc_link_reset_parser(p), out |-> <<>>]
         ELSE [p |-> [p EXCEPT !.st = "WAIT_EOF"], out |-> <<>>]
    ELSE LinkWaitEof(p, b)

\* the loop of rpc_link_feed_bytes over the bytes d: the context after the
\* last byte and the payloads sent on the way, in order (the bytes are fed
\* half by half so that the evaluation does not nest Len(d) deep)
RECURSIVE LinkFeed(_, _, _)
LinkFeed(p, d, out) ==
    IF d = <<>> THEN [p |-> p, out |-> out]
    ELSE IF Len(d) = 1
    THEN LET r == LinkFeedByte(p, d[1]) IN [p |-> r.p, out |-> out \o r.out]
    ELSE LET h == Len(d) \div 2
             a == LinkFeed(p, SubSeq(d, 1, h), out)
         IN  IF a.p.payload_pos >= 0 /\ Len(a.out) >= 0
             THEN LinkFeed(a.p, SubSeq(d, h + 1, Len(d)), a.out)
             ELSE a

RECURSIVE SendAll(_, _)
SendAll(q, items) ==
    IF items = <<>> THEN q ELSE SendAll(os_queue_send(q, Head(items)), Tail(items))

\* bytes read from PHY in one call of rpc_link_feed_bytes
MaxChunk == 3

\* rpc_link_feed_bytes(d, k) in the RX thread of node n, on the next k bytes of
\* the pipe; a payload is sent with OS_WAIT_FOREVER, so the call does not
\* return before qLinkToTrans has room for it
rpc_link_feed_bytes(n, k) ==
    /\ k <= Len(phy[n])
    /\ LET r == LinkFeed(P[n], SubSeq(phy[n], 1, k), <<>>) IN
       /\ Len(qLinkToTrans[n]) + Len(r.out) <= Q_LINK_TO_TRANS_DEPTH
       /\ P' = [P EXCEPT ![n] = r.p]
       /\ qLinkToTrans' = [qLinkToTrans EXCEPT ![n] = SendAll(@, r.out)]
       /\ lnk' = [lnk EXCEPT ![n].got = @ \o r.out]
    /\ phy' = [phy EXCEPT ![n] = SubSeq(@, k + 1, Len(@))]
    /\ UNCHANGED <<s_next_seq, s_wait, s_reg, qTransToLink, qRpcRequests, wire, caller,
                   trans, worker, ncalls, nstreams, handled, lost, tev, reglog, codec>>

\* what the peer's side of the pipe carries in one run
MaxLinkItems == 3

\* payloads framed: of the smallest size and made of sentinel bytes; a REQ
\* for "ping"; of the largest size, with sentinel bytes in it
MaxPayload == [i \in 1..MAX_PAYLOAD_SIZE |->
                  IF i % 4 = 0 THEN SOF ELSE IF i % 4 = 1 THEN EOF_
                  ELSE IF i % 4 = 2 THEN SOD ELSE i]
ReqPingPayload == rpc_trans_build_msg(MSG_REQ, 1, NAME_PING, NULL_BYTES, 0, MAX_PAYLOAD_SIZE)
LinkPayloads == {<<SOF, SOD, EOF_, SOF>>, ReqPingPayload, MaxPayload}
\* the frames of these payloads
FrameOf == [payload \in LinkPayloads |-> rpc_link_build_frame(payload)]

\* the peer's rpc_link_build_frame(payload) writes a frame to the pipe
LinkSendFrame(n, payload) ==
    /\ phy[n] = <<>>
    /\ Len(lnk[n].sent) < MaxLinkItems
    /\ phy' = [phy EXCEPT ![n] = FrameOf[payload]]
    /\ lnk' = [lnk EXCEPT ![n].sent = Append(@, [kind |-> "frame", payload |-> payload])]
    /\ UNCHANGED <<s_next_seq, s_wait, s_reg, qLinkToTrans, qTransToLink, qRpcRequests,
                   wire, caller, trans, worker, ncalls, nstreams, handled, lost, tev,
                   P, reglog, codec>>

\* a frame damaged on the wire: its header CRC byte is wrong and its packet
\* CRC byte is pktcrc
BadHdrFrame(payload, pktcrc) ==
    LET f == FrameOf[payload] IN
    [i \in 1..Len(f) |-> IF i = 4 THEN Xor8(f[i], 1)
                         ELSE IF i = Len(f) - 1 THEN pktcrc ELSE f[i]]
BadPktCrcs == {0, SOF}

LinkSendBadHdr(n, payload, pktcrc) ==
    /\ phy[n] = <<>>
    /\ Len(lnk[n].sent) < MaxLinkItems
    /\ phy' = [phy EXCEPT ![n] = BadHdrFrame(payload, pktcrc)]
    /\ lnk' = [lnk EXCEPT ![n].sent = Append(@, [kind |-> "badhdr", payload |-> payload])]
    /\ UNCHANGED <<s_next_seq, s_wait, s_reg, qLinkToTrans, qTransToLink, qRpcRequests,
                   wire, caller, trans, worker, ncalls, nstreams, handled, lost, tev,
                   P, reglog, codec>>

\* runs of bytes on the wire between frames, none of them SOF
GarbageRuns == {<<0>>, <<SOD, 7, EOF_>>}

LinkSendGarbage(n, run) ==
    /\ phy[n] = <<>>
    /\ Len(lnk[n].sent) < MaxLinkItems
    /\ phy' = [phy EXCEPT ![n] = run]
    /\ lnk' = [lnk EXCEPT ![n].sent = Append(@, [kind |-> "garbage", payload |-> <<>>])]
    /\ UNCHANGED <<s_next_seq, s_wait, s_reg, qLinkToTrans, qTransToLink, qRpcRequests,
                   wire, caller, trans, worker, ncalls, nstreams, handled, lost, tev,
                   P, reglog, codec>>

(* ------------------------------------------------------------------ *)
(* Specifications                                                       *)
(* ------------------------------------------------------------------ *)

Request(c) ==
    \/ \E in \in ReqInputs : ReqCall(c, in, 1)
    \/ rpc_trans_alloc_waiter(c)
    \/ ReqInitBuild(c)
    \/ ReqSend(c)
    \/ ReqWake(c)
    \/ ReqTimeout(c)
    \/ ReqTimeoutFree(c)

Pipeline(n) ==
    \/ TransRecv(n)
    \/ TransComplete(n)
    \/ \E k \in Workers : WorkerRecv(n, k)
    \/ \E k \in Workers : WorkerSend(n, k)
    \/ ThreadTX(n)
    \/ ThreadRX(n)

Register ==
    \E n \in RegNodes, e \in RegInputs : Len(reglog[n]) < MaxRegs /\ register_fn(n, e)

\* requests only
Next ==
    \/ \E c \in Callers : Request(c)
    \/ Register
    \/ \E n \in Node : Pipeline(n)

Spec == Init /\ [][Next]_vars

\* The scenario of a wrap.  Thread 1 makes the first request of the run, for
\* "ping".  While the response to it lies in qLinkToTrans (ThreadTrans has not
\* taken it yet), calls that fail in rpc_trans_build_msg run the 8-bit counter
\* of rpc_trans_alloc_waiter through its values; these calls are not counted.
\* Thread 2 makes them until the counter has come round to the seq of the
\* response that lies in qLinkToTrans, and thread 1 makes one when the counter
\* stands one short of that seq.  Thread 2 then makes the second request of
\* the run.
RespQueued == qLinkToTrans["cli"] # <<>>

RespQueuedSeq == rpc_trans_parse_msg(Head(qLinkToTrans["cli"])).seq

CallsWrap ==
    \/ /\ ncalls = 0
       /\ ReqCall(1, InPing, 1)
    \/ /\ ncalls = 1 /\ RespQueued
       /\ s_next_seq["cli"] # RespQueuedSeq
       /\ ReqCall(2, InBigArgs, 0)
    \/ /\ ncalls = 1 /\ RespQueued
       /\ NextSeq(s_next_seq["cli"]) = RespQueuedSeq
       /\ ReqCall(1, InBigArgs, 0)
    \/ /\ ncalls = 1 /\ RespQueued
       /\ s_next_seq["cli"] = RespQueuedSeq
       /\ ReqCall(2, InPing, 1)

RequestWrap(c) ==
    \/ rpc_trans_alloc_waiter(c)
    \/ ReqInitBuild(c)
    \/ ReqSend(c)
    \/ ReqWake(c)
    \/ ReqTimeout(c)
    \/ ReqTimeoutFree(c)

NextWrap ==
    \/ CallsWrap
    \/ \E c \in Callers : RequestWrap(c)
    \/ Register
    \/ \E n \in Node : Pipeline(n)

SpecWrap == Init /\ [][NextWrap]_vars

\* streams only: no request is made, so nothing is sent back
NextStream ==
    \/ \E c \in Callers, in \in StreamInputs : rpc_trans_stream(c, in)
    \/ Register
    \/ \E n \in Node : TransRecv(n)
    \/ \E n \in Node, k \in Workers : WorkerRecv(n, k)
    \/ \E n \in Node : ThreadTX(n)
    \/ \E n \in Node : ThreadRX(n)

SpecStream == Init /\ [][NextStream]_vars

(* ------------------------------------------------------------------ *)
(* C1                                                                   *)
(* ------------------------------------------------------------------ *)

\* C1: in every reachable state no two in-use waiter slots hold the same
\* sequence number, also when the 8-bit counter wraps from 255 to 1 while an
\* earlier request is still waiting
C1_SeqUnique ==
    \A n \in Node : \A i, j \in Slots :
        (i # j /\ s_wait[n][i].in_use /\ s_wait[n][j].in_use)
            => s_wait[n][i].seq # s_wait[n][j].seq

(* ------------------------------------------------------------------ *)
(* C2                                                                   *)
(* ------------------------------------------------------------------ *)

\* caller c has returned from a wait that os_sem_take ended successfully
Woken(c) == caller[c].pc = "done" /\ caller[c].how = "woken"

\* the response buffer of caller c starts with these bytes
BufHolds(c, bytes) ==
    /\ Len(caller[c].buf) >= Len(bytes)
    /\ SubSeq(caller[c].buf, 1, Len(bytes)) = bytes

\* the server's worker processed a REQ with this seq: its history record
SrvHandled(seq) ==
    {handled["srv"][i] : i \in {j \in 1..Len(handled["srv"]) :
        handled["srv"][j].type = MSG_REQ /\ handled["srv"][j].seq = seq}}

\* C2: a RESP/ERR message completes exactly the waiter whose seq equals the
\* message's seq: a caller that is woken was woken, while it waited, by the
\* message carrying the seq of its own request, and it gets that message's
\* result code, length and bytes
C2_CompletesOwnWaiter ==
    /\ \A c \in Callers :
          Woken(c) =>
              /\ caller[c].own
              /\ caller[c].rc = (IF caller[c].by.type = MSG_RESP
                                 THEN RPC_SUCCESS ELSE RPC_ERROR)
              /\ caller[c].len = Len(caller[c].by.args)
              /\ BufHolds(c, caller[c].by.args)

(* ------------------------------------------------------------------ *)
(* C3                                                                   *)
(* ------------------------------------------------------------------ *)

\* C3: a request whose wait runs out returns RPC_ERROR_TIMEOUT, a code other
\* than the generic RPC_ERROR, and its waiter slot is not in use when it returns
C3_TimeoutCode ==
    [][\A c \in Callers :
          (caller[c].pc = "timedout" /\ caller'[c].pc = "done") =>
              /\ caller'[c].rc = RPC_ERROR_TIMEOUT
              /\ caller'[c].rc # RPC_ERROR
              /\ ~s_wait'["cli"][caller[c].w].in_use]_vars

(* ------------------------------------------------------------------ *)
(* C4                                                                   *)
(* ------------------------------------------------------------------ *)

\* ThreadTrans of node n is about to take a well-formed RESP/ERR whose seq no
\* in-use waiter slot holds
LateResponseNext(n) ==
    /\ trans[n].pc = "recv"
    /\ qLinkToTrans[n] # <<>>
    /\ LET p == rpc_trans_parse_msg(Head(qLinkToTrans[n])) IN
       /\ p.ok
       /\ p.type \in {MSG_RESP, MSG_ERR}
       /\ ~\E i \in Slots : s_wait[n][i].in_use /\ s_wait[n][i].seq = p.seq

\* C4: a RESP/ERR whose seq matches no in-use waiter is discarded: the step
\* that takes it changes no waiter slot, no semaphore, no caller's buffer,
\* length or result, sends nothing and leaves ThreadTrans ready for the next
\* message
C4_LateResponseDiscarded ==
    [][\A n \in Node :
          (LateResponseNext(n) /\ qLinkToTrans'[n] = Tail(qLinkToTrans[n])) =>
              UNCHANGED <<s_next_seq, s_wait, s_reg, caller, trans, worker,
                          qTransToLink, qRpcRequests, wire, handled, lost>>]_vars

\* a response arrived after its request had timed out and found no waiter
C4_Witness ==
    /\ tev["cli"].kind = "nowaiter"
    /\ \E c \in Callers : caller[c].pc = "done" /\ caller[c].how = "timeout"
    /\ \A i \in Slots : ~s_wait["cli"][i].in_use

(* ------------------------------------------------------------------ *)
(* C5                                                                   *)
(* ------------------------------------------------------------------ *)

\* ThreadTrans of "cli" has just processed the RESP/ERR carrying this seq
RespArrived(seq) ==
    /\ tev["cli"].seq = seq
    /\ tev["cli"].kind \in {"completed", "overflow", "nowaiter"}

\* C5: when the handler of a REQ returned RPC_SUCCESS with olen bytes of
\* output (olen <= 64) and the RESP arrived without the call timing out, the
\* call has returned RPC_SUCCESS with *resp_len = olen and its buffer starts
\* with the handler's bytes
C5_SuccessRoundTrip ==
    \A c \in Callers :
        (Woken(c) /\ RespArrived(caller[c].seq)) =>
            \A e \in SrvHandled(caller[c].seq) :
                (e.called /\ e.rc = RPC_SUCCESS /\ e.olen <= MAX_FUNC_ARGS_RESP_SIZE) =>
                    /\ caller[c].rc = RPC_SUCCESS
                    /\ caller[c].len = e.olen
                    /\ BufHolds(c, e.out)

(* ------------------------------------------------------------------ *)
(* C6                                                                   *)
(* ------------------------------------------------------------------ *)

\* C6: a REQ naming a function with no registered handler is answered with
\* an ERR carrying the request's seq and the tag "NOFUNC"; the caller woken
\* by that reply returns RPC_ERROR with *resp_len = 6 and the bytes "NOFUNC"
C6_UnknownFunction ==
    /\ \A n \in Node : \A i \in 1..Len(handled[n]) :
          (handled[n][i].type = MSG_REQ /\ handled[n][i].idx = 0) =>
              LET p == rpc_trans_parse_msg(handled[n][i].lp) IN
              /\ p.ok
              /\ p.type = MSG_ERR
              /\ p.seq = handled[n][i].seq
              /\ p.args = STR_NOFUNC
    /\ \A c \in Callers :
          Woken(c) =>
              \A e \in SrvHandled(caller[c].seq) :
                  e.idx = 0 =>
                      /\ caller[c].rc = RPC_ERROR
                      /\ caller[c].len = 6
                      /\ BufHolds(c, STR_NOFUNC)

(* ------------------------------------------------------------------ *)
(* C7                                                                   *)
(* ------------------------------------------------------------------ *)

\* C7: the code a request returns for a local failure (invalid arguments, no
\* free waiter slot, message build failure) differs from the code a request
\* returns when a remote ERR reply completed it
C7_LocalVsRemoteCode ==
    \A c, d \in Callers :
        ( /\ caller[c].pc = "done"
          /\ caller[c].how \in {"invalid", "nowaiter", "buildfail"}
          /\ Woken(d) /\ caller[d].own /\ caller[d].by.type = MSG_ERR )
            => caller[c].rc # caller[d].rc

(* ------------------------------------------------------------------ *)
(* C8                                                                   *)
(* ------------------------------------------------------------------ *)

\* C8: a request whose *resp_len is below MAX_FUNC_ARGS_RESP_SIZE returns
\* RPC_ERROR_INVALID_ARGS, with no waiter allocated and no message built for it
C8_SmallCapacityCode ==
    \A c \in Callers :
        ( /\ caller[c].pc = "done"
          /\ caller[c].how = "invalid"
          /\ caller[c].cap < MAX_FUNC_ARGS_RESP_SIZE )
            => /\ caller[c].rc = RPC_ERROR_INVALID_ARGS
               /\ caller[c].w = 0
               /\ caller[c].lp = <<>>

(* ------------------------------------------------------------------ *)
(* C9                                                                   *)
(* ------------------------------------------------------------------ *)

\* C9: when ThreadTrans completes a waiter with a RESP/ERR body longer than
\* the capacity recorded in the waiter, the request that owns the waiter
\* returns RPC_ERROR_OVERFLOW with *resp_len = 0
C9_OverflowResult ==
    \A c \in Callers :
        (Woken(c) /\ caller[c].by.over) =>
            /\ caller[c].rc = RPC_ERROR_OVERFLOW
            /\ caller[c].len = 0

(* ------------------------------------------------------------------ *)
(* C10                                                                  *)
(* ------------------------------------------------------------------ *)

\* the number a stream carries (the k-th stream of the run carries k)
RECURSIVE IdsOfPayloads(_)
IdsOfPayloads(q) ==
    IF q = <<>> THEN <<>>
    ELSE <<rpc_trans_parse_msg(Head(q)).args[1]>> \o IdsOfPayloads(Tail(q))

RECURSIVE IdsOfRecords(_)
IdsOfRecords(q) ==
    IF q = <<>> THEN <<>>
    ELSE <<Head(q).args[1]>> \o IdsOfRecords(Tail(q))

\* the streams the server's worker has processed, followed by the streams on
\* their way to it, nearest first
StreamPath ==
    IdsOfRecords(handled["srv"]) \o IdsOfRecords(qRpcRequests["srv"])
        \o IdsOfPayloads(qLinkToTrans["srv"]) \o IdsOfPayloads(wire["cli"])
        \o IdsOfPayloads(qTransToLink["cli"])

\* a STREAM whose name is registered when the worker takes it is passed to
\* the handler, once, and no reply is built for it
StreamsInvokedOnce ==
    \A i \in 1..Len(handled["srv"]) :
        LET e == handled["srv"][i] IN
        e.type = MSG_STREAM => (e.called <=> e.idx # 0) /\ e.lp = <<>>

\* C10, as stated: every stream sent is processed exactly once and in the
\* order sent, none is lost: the streams processed and the streams on their
\* way are, in this order, the streams 1 .. nstreams
C10_NoStreamLost ==
    /\ StreamPath = [i \in 1..nstreams |-> i]
    /\ StreamsInvokedOnce

\* C10, amended: streams are processed at most once and in the order sent,
\* and a stream is missing only if ThreadTrans dropped it because
\* qRpcRequests was full when it arrived
C10_StreamsInOrderOrDropped ==
    /\ \A i, j \in 1..Len(StreamPath) : i < j => StreamPath[i] < StreamPath[j]
    /\ \A k \in 1..nstreams :
          (\E i \in 1..Len(StreamPath) : StreamPath[i] = k)
              <=> ~(\E i \in 1..Len(lost["srv"]) : lost["srv"][i].args[1] = k)
    /\ \A i \in 1..Len(lost["srv"]) : lost["srv"][i].qlen = Q_RPC_REQUEST_DEPTH
    /\ StreamsInvokedOnce

\* a stream was dropped with qRpcRequests full, every other stream sent has
\* been processed, and the handler was invoked for one of them
C10_Witness ==
    /\ lost["srv"] # <<>>
    /\ Len(handled["srv"]) + Len(lost["srv"]) = nstreams
    /\ \E i \in 1..Len(handled["srv"]) : handled["srv"][i].called

(* ------------------------------------------------------------------ *)
(* The registry alone: every node registers, up to one call more than   *)
(* the table holds                                                      *)
(* ------------------------------------------------------------------ *)

RegisterAny ==
    \E n \in Node, e \in RegInputsAll :
        Len(reglog[n]) < NUM_REG_FUNC + 1 /\ register_fn(n, e)

SpecReg == Init /\ [][RegisterAny]_vars

(* ------------------------------------------------------------------ *)
(* C17                                                                  *)
(* ------------------------------------------------------------------ *)

\* C17: a call of register_fn fails and leaves the registry as it was when an
\* entry of the same name is registered already or the table holds
\* NUM_REG_FUNC entries; otherwise it appends the entry and returns success
C17_RegisterFn ==
    \A n \in Node : \A i \in 1..Len(reglog[n]) :
        LET r == reglog[n][i] IN
        IF r.dup \/ r.count >= NUM_REG_FUNC
        THEN r.rc = RPC_ERROR /\ r.after = r.count
        ELSE /\ r.rc = RPC_SUCCESS
             /\ r.after = r.count + 1
             /\ s_reg[n][r.after] = [name |-> r.name, fn |-> r.fn]

(* ------------------------------------------------------------------ *)
(* C18                                                                  *)
(* ------------------------------------------------------------------ *)

\* C18: the registry is append-only: in every step the entry count does not
\* decrease and stays within NUM_REG_FUNC, the entries registered before are
\* the same after, and a name that find_reg found at index i is found at
\* index i after the step
C18_RegistryAppendOnly ==
    [][\A n \in Node :
          /\ Len(s_reg'[n]) >= Len(s_reg[n])
          /\ Len(s_reg'[n]) <= NUM_REG_FUNC
          /\ SubSeq(s_reg'[n], 1, Len(s_reg[n])) = s_reg[n]
          /\ \A name \in RegNames :
                find_reg(s_reg[n], name) # 0 =>
                    find_reg(s_reg'[n], name) = find_reg(s_reg[n], name)]_vars

\* a full table that holds a name twice, after a call that was refused
C18_Witness ==
    \E n \in Node :
        /\ Len(s_reg[n]) = NUM_REG_FUNC
        /\ \E i, j \in 1..Len(s_reg[n]) : i < j /\ s_reg[n][i].name = s_reg[n][j].name
        /\ \E i \in 1..Len(reglog[n]) : reglog[n][i].rc = RPC_ERROR

(* ------------------------------------------------------------------ *)
(* Requests made with several values of timeout_ms                      *)
(* ------------------------------------------------------------------ *)

\* values of timeout_ms: zero, below the default, the default, above it
TimeoutValues == {0, 50, REQ_TIMEOUT_MS_DEFAULT, 1000}
TimeoutInputs == {[InPing EXCEPT !.tmo = t] : t \in TimeoutValues}

\* one thread calls
NextTimeout ==
    \/ \E in \in TimeoutInputs : ReqCall(1, in, 1)
    \/ RequestWrap(1)
    \/ Register
    \/ \E n \in Node : Pipeline(n)

SpecTimeout == Init /\ [][NextTimeout]_vars

(* ------------------------------------------------------------------ *)
(* C19                                                                  *)
(* ------------------------------------------------------------------ *)

\* the time in ms for which thread c waits, or waited, in os_sem_take
Waits(c) == caller[c].pc \in {"wait", "timedout"}

\* C19, as stated: for every timeout_ms the wait on the semaphore lasts
\* max(timeout_ms, REQ_TIMEOUT_MS_DEFAULT) ms
C19_WaitIsMax ==
    \A c \in Callers :
        Waits(c) =>
            caller[c].waitms = (IF caller[c].tmo > REQ_TIMEOUT_MS_DEFAULT
                                THEN caller[c].tmo ELSE REQ_TIMEOUT_MS_DEFAULT)

\* C19, amended: the wait lasts timeout_ms ms when timeout_ms is not zero and
\* REQ_TIMEOUT_MS_DEFAULT ms when it is zero
C19_WaitIsCallersTimeout ==
    \A c \in Callers :
        Waits(c) =>
            /\ caller[c].tmo # 0 => caller[c].waitms = caller[c].tmo
            /\ caller[c].tmo = 0 => caller[c].waitms = REQ_TIMEOUT_MS_DEFAULT

\* a call made with a timeout below the default has timed out after the
\* time it asked for, and the reply to it is on its way
C19_Witness ==
    \E c \in Callers :
        /\ caller[c].pc = "timedout"
        /\ caller[c].tmo = 50 /\ caller[c].waitms = 50
        /\ qLinkToTrans["cli"] # <<>>

(* ------------------------------------------------------------------ *)
(* The codec alone: a message is built and the result parsed            *)
(* ------------------------------------------------------------------ *)

\* sequence numbers, names (of length MIN_FUNC_NAME_LEN, 4 and
\* MAX_FUNC_NAME_LEN) and argument bytes (of length 0 .. MAX_FUNC_ARGS_RESP_SIZE,
\* with zero bytes among them) a message is built from
CodecSeqs == {0, 1, 255}
CodecNames == {[i \in 1..MIN_FUNC_NAME_LEN |-> 97], NAME_PING,
               [i \in 1..MAX_FUNC_NAME_LEN |-> 97]}
CodecArgs == {<<>>, <<0>>, <<0, 0>>, <<7, 0, 9>>,
              [i \in 1..MAX_FUNC_ARGS_RESP_SIZE |-> IF i % 2 = 0 THEN 0 ELSE i]}

\* rpc_trans_build_msg(type, seq, name, args, alen, lp.payload, sizeof(lp.payload))
CodecBuild(type, seq, name, args) ==
    /\ codec.pc = "idle"
    /\ codec' = [Codec0 EXCEPT !.pc = "built", !.type = type, !.seq = seq,
                               !.name = name, !.args = args, !.alen = Len(args),
                               !.out = rpc_trans_build_msg(type, seq, name, args,
                                                           Len(args), MAX_PAYLOAD_SIZE)]
    /\ UNCHANGED <<s_next_seq, s_wait, s_reg, qLinkToTrans, qTransToLink, qRpcRequests,
                   wire, caller, trans, worker, ncalls, nstreams, handled, lost, tev,
                   P, phy, lnk, reglog>>

\* rpc_trans_parse_msg(lp.payload, lp.payload_len, ...) of the message built
CodecParse ==
    /\ codec.pc = "built"
    /\ codec' = [codec EXCEPT !.pc = "parsed", !.res = rpc_trans_parse_msg(codec.out)]
    /\ UNCHANGED <<s_next_seq, s_wait, s_reg, qLinkToTrans, qTransToLink, qRpcRequests,
                   wire, caller, trans, worker, ncalls, nstreams, handled, lost, tev,
                   P, phy, lnk, reglog>>

NextCodec ==
    \/ \E type \in MsgTypes, seq \in CodecSeqs, name \in CodecNames, args \in CodecArgs :
          CodecBuild(type, seq, name, args)
    \/ CodecParse

SpecCodec == Init /\ [][NextCodec]_vars

(* ------------------------------------------------------------------ *)
(* C16                                                                  *)
(* ------------------------------------------------------------------ *)

\* C16: for every type, seq, name and argument bytes within the limits,
\* rpc_trans_build_msg produces a message, and rpc_trans_parse_msg of it
\* succeeds and yields the same type, seq, name, argument bytes and length
C16_CodecRoundTrip ==
    /\ codec.pc \in {"built", "parsed"} =>
          Len(codec.out) = 2 + Len(codec.name) + 1 + Len(codec.args)
    /\ codec.pc = "parsed" =>
          /\ codec.res.ok
          /\ codec.res.type = codec.type
          /\ codec.res.seq = codec.seq
          /\ codec.res.name = codec.name
          /\ codec.res.args = codec.args
          /\ codec.res.alen = Len(codec.args)

\* a message of the largest size, whose arguments hold zero bytes, was parsed
C16_Witness ==
    /\ codec.pc = "parsed"
    /\ Len(codec.name) = MAX_FUNC_NAME_LEN
    /\ Len(codec.args) = MAX_FUNC_ARGS_RESP_SIZE
    /\ \E i \in 1..Len(codec.args) : codec.args[i] = 0
    /\ codec.res.ok

(* ------------------------------------------------------------------ *)
(* The link layer alone: the RX side of "srv" parses what the pipe      *)
(* carries                                                              *)
(* ------------------------------------------------------------------ *)

NextLink ==
    \/ \E payload \in LinkPayloads : LinkSendFrame("srv", payload)
    \/ \E pktcrc \in BadPktCrcs : LinkSendBadHdr("srv", ReqPingPayload, pktcrc)
    \/ \E run \in GarbageRuns : LinkSendGarbage("srv", run)
    \/ \E k \in 1..MaxChunk : rpc_link_feed_bytes("srv", k)

SpecLink == Init /\ [][NextLink]_vars

\* the payloads of the valid frames among the items, in order
IsFrame(item) == item.kind = "frame"
FramePayloads(items) ==
    LET f == SelectSeq(items, IsFrame) IN [i \in 1..Len(f) |-> f[i].payload]

\* what the parser of node n has to have emitted: the payloads of the valid
\* frames written to the pipe, the last item counting once it is fed whole
Delivered(n) ==
    IF phy[n] = <<>> THEN FramePayloads(lnk[n].sent)
    ELSE FramePayloads(SubSeq(lnk[n].sent, 1, Len(lnk[n].sent) - 1))

\* every item written to the pipe of node n is of one of these kinds
OnlyKinds(n, kinds) == \A i \in 1..Len(lnk[n].sent) : lnk[n].sent[i].kind \in kinds

(* ------------------------------------------------------------------ *)
(* C13                                                                  *)
(* ------------------------------------------------------------------ *)

\* C13: a frame whose header CRC byte is wrong yields no payload, whatever
\* its other bytes are, and the valid frames fed after it are emitted intact:
\* when the pipe carried only valid frames and frames with a wrong header
\* CRC, the parser has emitted exactly the payloads of the valid frames
C13_BadHeaderCrcAbsorbed ==
    \A n \in Node : OnlyKinds(n, {"frame", "badhdr"}) => lnk[n].got = Delivered(n)

(* ------------------------------------------------------------------ *)
(* C14                                                                  *)
(* ------------------------------------------------------------------ *)

\* with runs of bytes other than SOF between valid frames, the parser has
\* emitted every valid frame once and in order
C14_FramesKept ==
    \A n \in Node : OnlyKinds(n, {"frame", "garbage"}) => lnk[n].got = Delivered(n)

\* a step that feeds bytes other than SOF to a parser in WAIT_SOF leaves the
\* parser context as it was and emits nothing
C14_NonSofIgnored ==
    \A n \in Node :
        ( /\ P[n].st = "WAIT_SOF"
          /\ Len(phy'[n]) < Len(phy[n])
          /\ \A i \in 1..(Len(phy[n]) - Len(phy'[n])) : phy[n][i] # SOF )
            => /\ P'[n] = P[n]
               /\ lnk'[n].got = lnk[n].got
               /\ qLinkToTrans'[n] = qLinkToTrans[n]

\* C14: runs of bytes, none equal to SOF, inserted between valid frames lose
\* no frame: every valid frame is emitted exactly once and in order; a byte
\* other than SOF received in WAIT_SOF changes no parser state and emits nothing
C14_GarbageBetweenFrames == []C14_FramesKept /\ [][C14_NonSofIgnored]_vars

\* a frame, a run of garbage and a second frame were fed, and both payloads
\* were emitted
C14_Witness ==
    /\ Len(lnk["srv"].sent) = 3
    /\ lnk["srv"].sent[1].kind = "frame"
    /\ lnk["srv"].sent[2].kind = "garbage"
    /\ lnk["srv"].sent[3].kind = "frame"
    /\ phy["srv"] = <<>>
    /\ lnk["srv"].got = <<lnk["srv"].sent[1].payload, lnk["srv"].sent[3].payload>>

(* ------------------------------------------------------------------ *)
(* C15                                                                  *)
(* ------------------------------------------------------------------ *)

\* C15: the bytes rpc_link_build_frame writes for a payload of length
\* MIN_PAYLOAD_SIZE .. MAX_PAYLOAD_SIZE, sentinel bytes in it or not, fed in
\* chunks of any size to a parser in WAIT_SOF, make it emit that payload
\* once, after the last byte, and leave it in WAIT_SOF
C15_FrameRoundTrip ==
    \A n \in Node :
        OnlyKinds(n, {"frame"}) =>
            /\ lnk[n].got = Delivered(n)
            /\ phy[n] = <<>> => P[n].st = "WAIT_SOF"

\* the frame of the largest payload, which holds sentinel bytes, was fed
\* whole and its payload emitted
C15_Witness ==
    /\ lnk["srv"].sent = <<[kind |-> "frame", payload |-> MaxPayload]>>
    /\ phy["srv"] = <<>>
    /\ lnk["srv"].got = <<MaxPayload>>
    /\ P["srv"].st = "WAIT_SOF"

(* ------------------------------------------------------------------ *)
(* The worker with handlers of every kind: the server registers one of  *)
(* them for "ping", thread 1 makes requests, thread 2 sends streams     *)
(* ------------------------------------------------------------------ *)

HandlerFns == {"handler_fn_ping"} \cup DOMAIN StubHandlers
RegInputsWorker == {[name |-> NAME_PING, fn |-> f] : f \in HandlerFns}

RegisterWorker ==
    \E n \in RegNodes, e \in RegInputsWorker :
        Len(reglog[n]) < MaxRegs /\ register_fn(n, e)

NextWorker ==
    \/ RegisterWorker
    \/ ReqCall(1, InPing, MaxCalls)
    \/ RequestWrap(1)
    \/ rpc_trans_stream(2, [name |-> NAME_PING])
    \/ \E n \in Node : Pipeline(n)

SpecWorker == Init /\ [][NextWorker]_vars

(* ------------------------------------------------------------------ *)
(* C11                                                                  *)
(* ------------------------------------------------------------------ *)

\* C11: the step in which a worker takes a STREAM record from qRpcRequests
\* enqueues nothing to qTransToLink and leaves the worker with no reply to
\* send, whatever the handler returns and also when none is registered
C11_StreamNoReply ==
    [][\A n \in Node : \A k \in Workers :
          ( /\ worker[n][k].pc = "recv"
            /\ qRpcRequests[n] # <<>>
            /\ Head(qRpcRequests[n]).type = MSG_STREAM
            /\ qRpcRequests'[n] = Tail(qRpcRequests[n]) )
              => /\ qTransToLink' = qTransToLink
                 /\ worker'[n][k] = Worker0
                 /\ handled'[n][Len(handled'[n])].lp = <<>>]_vars

\* the server's worker has processed a STREAM for which no handler was
\* registered and, later, one whose handler returned an error code, and the
\* server has nothing to send
C11_Witness ==
    /\ \E i, j \in 1..Len(handled["srv"]) :
          /\ i < j
          /\ handled["srv"][i].type = MSG_STREAM /\ handled["srv"][i].idx = 0
          /\ handled["srv"][j].type = MSG_STREAM /\ handled["srv"][j].called
          /\ handled["srv"][j].rc < 0
    /\ qTransToLink["srv"] = <<>>
    /\ worker["srv"][1] = Worker0

(* ------------------------------------------------------------------ *)
(* C20                                                                  *)
(* ------------------------------------------------------------------ *)

\* C20: for a REQ whose handler is registered (and returns an output length
\* within the capacity), the worker's reply carries the request's seq and
\* is a RESP with the handler's output when the handler returned a code >= 0,
\* and otherwise an ERR whose body is OVERFLOW, INVALID_ARGS or TIMEOUT for
\* the matching code and FAIL for any other error code
C20_ReplyByCode ==
    \A n \in Node : \A i \in 1..Len(handled[n]) :
        LET e == handled[n][i]
            p == rpc_trans_parse_msg(e.lp)
            tag == IF e.hrc = RPC_ERROR_OVERFLOW THEN STR_OVERFLOW
                   ELSE IF e.hrc = RPC_ERROR_INVALID_ARGS THEN STR_INVALID_ARGS
                   ELSE IF e.hrc = RPC_ERROR_TIMEOUT THEN STR_TIMEOUT
                   ELSE STR_FAIL
        IN  (e.type = MSG_REQ /\ e.called /\ e.holen <= MAX_FUNC_ARGS_RESP_SIZE) =>
                /\ p.ok
                /\ p.seq = e.seq
                /\ IF e.hrc >= 0
                   THEN p.type = MSG_RESP /\ p.args = e.out
                   ELSE p.type = MSG_ERR /\ p.args = tag

(* ------------------------------------------------------------------ *)
(* Concurrent callers of a registered handler, no wait running out      *)
(* ------------------------------------------------------------------ *)

\* "ping" is registered on the server with the handler of the example
PingRegistered ==
    /\ find_reg(s_reg["srv"], NAME_PING) # 0
    /\ s_reg["srv"][find_reg(s_reg["srv"], NAME_PING)].fn = "handler_fn_ping"

\* Two application threads call rpc_request("ping") once the handler is
\* registered.  Thread 2 makes the first call; while it is under way thread 1
\* enters its call.  Thread 1 is not scheduled between the allocation of its
\* waiter and "Initialize the waiter" while thread 2 makes one call after the
\* other (these are not counted) until the counter of rpc_trans_alloc_waiter
\* has come round to thread 1's seq; thread 2's call then is the last one
CallsFleet ==
    \/ /\ ncalls = 0 /\ PingRegistered
       /\ caller[2].pc = "idle"
       /\ ReqCall(2, InPing, 0)
    \/ /\ ncalls = 0
       /\ caller[2].pc \in {"init", "send", "wait"}
       /\ ReqCall(1, InPing, 1)
    \/ /\ ncalls = 1 /\ caller[1].pc = "init"
       /\ s_next_seq["cli"] # caller[1].seq
       /\ ReqCall(2, InPing, 0)
    \/ /\ ncalls = 1 /\ caller[1].pc = "init"
       /\ s_next_seq["cli"] = caller[1].seq
       /\ ReqCall(2, InPing, 1)

\* the steps of a call; no os_sem_take runs out
RequestFleet(c) ==
    \/ rpc_trans_alloc_waiter(c)
    \/ /\ (c = 1 => ncalls = 2 /\ caller[2].pc # "alloc")
       /\ ReqInitBuild(c)
    \/ ReqSend(c)
    \/ ReqWake(c)

NextFleet ==
    \/ CallsFleet
    \/ \E c \in Callers : RequestFleet(c)
    \/ Register
    \/ \E n \in Node : Pipeline(n)

SpecFleet == Init /\ [][NextFleet]_vars

(* ------------------------------------------------------------------ *)
(* C12                                                                  *)
(* ------------------------------------------------------------------ *)

\* C12: with at most REQ_TABLE_SIZE threads calling a registered handler and
\* no wait running out, every call that has returned was given a waiter,
\* was woken while it waited by the response carrying its seq, and returned
\* RPC_SUCCESS
C12_EveryCallSucceeds ==
    \A c \in Callers :
        caller[c].pc = "done" =>
            /\ caller[c].how = "woken"
            /\ caller[c].own
            /\ caller[c].rc = RPC_SUCCESS

(* ------------------------------------------------------------------ *)
(* Every exit of rpc_trans_request: requests that fail to build, time   *)
(* out, are answered, or find qTransToLink full of streams              *)
(* ------------------------------------------------------------------ *)

RequestLeak(c) ==
    \/ \E in \in {InPing, InBigArgs} : ReqCall(c, in, 1)
    \/ rpc_trans_alloc_waiter(c)
    \/ ReqInitBuild(c)
    \/ ReqSend(c)
    \/ ReqSendFail(c)
    \/ ReqWake(c)
    \/ ReqTimeout(c)
    \/ ReqTimeoutFree(c)

NextLeak ==
    \/ RequestLeak(1)
    \/ /\ nstreams < Q_TRANS_TO_LINK_DEPTH
       /\ rpc_trans_stream(2, [name |-> NAME_PING])
    \/ Register
    \/ \E n \in Node : Pipeline(n)

SpecLeak == Init /\ [][NextLeak]_vars

(* ------------------------------------------------------------------ *)
(* C21                                                                  *)
(* ------------------------------------------------------------------ *)

\* the calls of rpc_trans_request in progress, and those that hold a waiter
InProgress == {c \in Callers : caller[c].pc \in {"alloc", "init", "send", "wait", "timedout"}}
HoldsWaiter == {c \in Callers : caller[c].pc \in {"init", "send", "wait", "timedout"}}
InUse(n) == {i \in Slots : s_wait[n][i].in_use}

\* the slots in use never outnumber the calls in progress, and none is in
\* use when no call is in progress
C21_InUseBounded ==
    \A n \in Node :
        /\ Cardinality(InUse(n)) <= (IF n = "cli" THEN Cardinality(InProgress) ELSE 0)
        /\ (InProgress = {} => InUse(n) = {})

\* a call that holds a waiter and returns leaves its slot free
C21_FreedOnReturn ==
    \A c \in Callers :
        (c \in HoldsWaiter /\ caller'[c].pc = "done") =>
            ~s_wait'["cli"][caller[c].w].in_use

\* C21: waiter slots never leak: every return of a call that allocated a
\* slot (build failure, enqueue failure, timeout, completion) leaves the slot
\* free, the slots in use never outnumber the calls in progress and none is
\* in use when no call is in progress
C21_NoLeak == []C21_InUseBounded /\ [][C21_FreedOnReturn]_vars

\* thread 1 has returned from a call that found qTransToLink full after an
\* earlier call of the run, and no slot is in use
C21_Witness ==
    /\ caller[1].pc = "done" /\ caller[1].how = "sendfail"
    /\ ncalls >= 2
    /\ InUse("cli") = {}

(* ------------------------------------------------------------------ *)
(* A lap of the sequence counter: thread 1 calls "ping" again and again *)
(* (the calls are not counted), thread 2 sends streams when the counter *)
(* has wrapped to its first value                                       *)
(* ------------------------------------------------------------------ *)

RequestSeq(c) ==
    \/ /\ PingRegistered
       /\ Len(handled["srv"]) <= SEQ_MOD
       /\ ReqCall(c, InPing, 0)
    \/ rpc_trans_alloc_waiter(c)
    \/ ReqInitBuild(c)
    \/ ReqSend(c)
    \/ ReqWake(c)

NextSeqLap ==
    \/ RequestSeq(1)
    \/ /\ s_next_seq["cli"] = 1
       /\ Len(handled["srv"]) >= SEQ_MOD - 2
       /\ rpc_trans_stream(2, [name |-> NAME_PING])
    \/ Register
    \/ \E n \in Node : Pipeline(n)

SpecSeq == Init /\ [][NextSeqLap]_vars

(* ------------------------------------------------------------------ *)
(* C22                                                                  *)
(* ------------------------------------------------------------------ *)

\* the payloads a node holds in its queues and on its wire
PayloadsAt(n) ==
    {qTransToLink[n][i] : i \in 1..Len(qTransToLink[n])}
        \cup {wire[n][i] : i \in 1..Len(wire[n])}
        \cup {qLinkToTrans[n][i] : i \in 1..Len(qLinkToTrans[n])}

\* C22: sequence 0 is reserved for STREAM: the counter of
\* rpc_trans_alloc_waiter stays within 1..255, no waiter in use and no call
\* that holds a waiter has seq 0, every REQ built, in flight or handled
\* carries a seq other than 0 and every STREAM carries seq 0
C22_SeqZeroReserved ==
    /\ \A n \in Node : s_next_seq[n] \in 1..(SEQ_MOD - 1)
    /\ \A n \in Node : \A i \in Slots : s_wait[n][i].in_use => s_wait[n][i].seq # 0
    /\ \A c \in HoldsWaiter :
          /\ caller[c].seq # 0
          /\ caller[c].pc = "send" => rpc_trans_parse_msg(caller[c].lp).seq # 0
    /\ \A n \in Node : \A lp \in PayloadsAt(n) :
          LET p == rpc_trans_parse_msg(lp) IN
          /\ p.type = MSG_REQ => p.seq # 0
          /\ p.type = MSG_STREAM => p.seq = 0
    /\ \A n \in Node : \A i \in 1..Len(handled[n]) :
          /\ handled[n][i].type = MSG_REQ => handled[n][i].seq # 0
          /\ handled[n][i].type = MSG_STREAM => handled[n][i].seq = 0

\* the server has handled the REQ with seq 255, then a STREAM, then the REQ
\* with seq 1 that follows the wrap, and a waiter is in use again
C22_Witness ==
    /\ Len(handled["srv"]) > SEQ_MOD
    /\ LET h == handled["srv"]
           k == Len(handled["srv"])
       IN  /\ h[k - 2].type = MSG_REQ /\ h[k - 2].seq = SEQ_MOD - 1
           /\ h[k - 1].type = MSG_STREAM /\ h[k - 1].seq = 0
           /\ h[k].type = MSG_REQ /\ h[k].seq = 1
    /\ \E i \in Slots : s_wait["cli"][i].in_use

(* ------------------------------------------------------------------ *)
(* C23                                                                  *)
(* ------------------------------------------------------------------ *)

\* C23: when ThreadTrans writes result_code, *resp_len and the response
\* buffer of the waiter it looked up and gives its semaphore, the call that
\* allocated that slot for the message's seq is blocked in os_sem_take on it
C23_WritesOnlyToWaitingCall ==
    [][\A n \in Node :
          (trans[n].pc = "complete" /\ trans'[n].pc = "recv") =>
              /\ s_wait[n][trans[n].w].in_use
              /\ s_wait[n][trans[n].w].seq = trans[n].seq
              /\ \E c \in Callers :
                    /\ caller[c].pc = "wait"
                    /\ caller[c].w = trans[n].w
                    /\ caller[c].seq = trans[n].seq]_vars

(* ------------------------------------------------------------------ *)
(* Damaged frames on the pipe                                           *)
(* ------------------------------------------------------------------ *)

\* the ways a frame is damaged: its length field says 6, 103 or 256 + n, its
\* header CRC, its SOD, its packet CRC or its EOF is another byte
DamageKinds == {"lensmall", "lenbig", "lenhigh", "hdrcrc", "sod", "pktcrc", "eof"}

\* the header CRC follows the length field where that is what is damaged, so
\* that the length check is what rejects the frame
DamagedFrame(payload, kind) ==
    LET f == FrameOf[payload]
        lo == IF kind = "lensmall" THEN MIN_PKT_LEN - 1
              ELSE IF kind = "lenbig" THEN MAX_PKT_LEN + 1 ELSE f[2]
        hi == IF kind = "lenhigh" THEN 1 ELSE f[3]
    IN  [i \in 1..Len(f) |->
            IF i = 2 THEN lo
            ELSE IF i = 3 THEN hi
            ELSE IF i = 4 THEN (IF kind = "hdrcrc" THEN Xor8(f[i], 1)
                                ELSE crc8_compute(<<SOF, lo, hi>>, 3, CRC8_INIT, CRC8_POLY))
            ELSE IF i = 5 /\ kind = "sod" THEN SOF
            ELSE IF i = Len(f) - 1 /\ kind = "pktcrc" THEN Xor8(f[i], 1)
            ELSE IF i = Len(f) /\ kind = "eof" THEN 0
            ELSE f[i]]

LinkSendDamaged(n, payload, kind) ==
    /\ phy[n] = <<>>
    /\ Len(lnk[n].sent) < MaxLinkItems
    /\ phy' = [phy EXCEPT ![n] = DamagedFrame(payload, kind)]
    /\ lnk' = [lnk EXCEPT ![n].sent = Append(@, [kind |-> kind, payload |-> payload])]
    /\ UNCHANGED <<s_next_seq, s_wait, s_reg, qLinkToTrans, qTransToLink, qRpcRequests,
                   wire, caller, trans, worker, ncalls, nstreams, handled, lost, tev,
                   P, reglog, codec>>

\* ThreadTrans takes a payload from qLinkToTrans (what it does with it is
\* left out here)
LinkDrain(n) ==
    /\ qLinkToTrans[n] # <<>>
    /\ qLinkToTrans' = [qLinkToTrans EXCEPT ![n] = Tail(@)]
    /\ UNCHANGED <<s_next_seq, s_wait, s_reg, qTransToLink, qRpcRequests, wire, caller,
                   trans, worker, ncalls, nstreams, handled, lost, tev,
                   P, phy, lnk, reglog, codec>>

NextDamage ==
    \/ \E payload \in {<<SOF, SOD, EOF_, SOF>>, ReqPingPayload} : LinkSendFrame("srv", payload)
    \/ \E kind \in DamageKinds : LinkSendDamaged("srv", ReqPingPayload, kind)
    \/ \E k \in 1..MaxChunk : rpc_link_feed_bytes("srv", k)

SpecDamage == Init /\ [][NextDamage]_vars

(* ------------------------------------------------------------------ *)
(* C24                                                                  *)
(* ------------------------------------------------------------------ *)

\* the bytes tried as the next byte in parser context p: the sentinels, the
\* two CRC bytes that fit the context, their neighbours, and bytes that are none of these
HdrCrcOf(p) == crc8_compute(p.hdr, 3, CRC8_INIT, CRC8_POLY)
PktCrcOf(p) == crc8_compute(<<SOD>> \o SubSeq(p.payload, 1, p.payload_pos),
                            p.payload_pos + 1, CRC8_INIT, CRC8_POLY)
ProbeBytes(p) ==
    LET h == HdrCrcOf(p)
        c == PktCrcOf(p)
    IN  {0, 1, 127, 255, SOF, SOD, EOF_, h, (h + 1) % 256, c, (c + 1) % 256}

\* C24: in every state the parser reaches and for each of these next bytes: a byte
\* that fails a check (length outside [MIN_PKT_LEN, MAX_PKT_LEN], header CRC
\* mismatch, no SOD after the header CRC, packet CRC mismatch, no EOF after
\* the packet CRC) leaves the parser in WAIT_SOF with payload_pos = 0 and
\* length = 0 and sends nothing; a payload is sent only for the byte EOF in
\* WAIT_EOF, of a frame whose length, header and payload passed the checks
C24_FailureResets ==
    \A b \in ProbeBytes(P["srv"]) :
        LET p == P["srv"]
            r == LinkFeedByte(p, b)
            len == b * 256 + p.hdr[2]
            fails ==
                \/ p.st = "READ_LEN2" /\ (len < MIN_PKT_LEN \/ len > MAX_PKT_LEN)
                \/ p.st = "READ_HDRCRC" /\ b # HdrCrcOf(p)
                \/ p.st = "WAIT_SOD" /\ b # SOD
                \/ p.st = "READ_PKTCRC" /\ b # PktCrcOf(p)
                \/ p.st = "WAIT_EOF" /\ b # EOF_
        IN  /\ fails => /\ r.p.st = "WAIT_SOF"
                        /\ r.p.payload_pos = 0
                        /\ r.p.length = 0
                        /\ r.out = <<>>
            /\ r.out # <<>> =>
                  /\ p.st = "WAIT_EOF" /\ b = EOF_
                  /\ r.out = <<SubSeq(p.payload, 1, p.payload_pos)>>
                  /\ p.length >= MIN_PKT_LEN /\ p.length <= MAX_PKT_LEN
                  /\ p.length = p.hdr[3] * 256 + p.hdr[2]
                  /\ p.hdr[1] = SOF
                  /\ p.payload_pos = p.length - 3

\* a frame with a damaged EOF and a valid frame have been fed whole: the
\* parser is in WAIT_SOF and has sent the payload of the valid frame only
C24_Witness ==
    /\ Len(lnk["srv"].sent) = 2
    /\ lnk["srv"].sent[1].kind = "eof"
    /\ lnk["srv"].sent[2].kind = "frame"
    /\ phy["srv"] = <<>>
    /\ lnk["srv"].got = <<lnk["srv"].sent[2].payload>>
    /\ P["srv"].st = "WAIT_SOF" /\ P["srv"].payload_pos = 0 /\ P["srv"].length = 0

(* ------------------------------------------------------------------ *)
(* Payloads of every origin in the two link queues: requests and        *)
(* streams of the application, replies of the worker, payloads of the   *)
(* parser                                                               *)
(* ------------------------------------------------------------------ *)

\* a name of the greatest length, and calls whose message is of the greatest
\* length and one byte longer
MaxName == [i \in 1..MAX_FUNC_NAME_LEN |-> 97]
InMaxMsg == [name |-> MaxName, args |-> [i \in 1..MAX_FUNC_ARGS_RESP_SIZE |-> 1],
             alen |-> MAX_FUNC_ARGS_RESP_SIZE, buf |-> TRUE, cap |-> 64, tmo |-> 1000]
InOverMsg == [name |-> MaxName, args |-> BigArgs, alen |-> MAX_FUNC_ARGS_RESP_SIZE + 1,
              buf |-> TRUE, cap |-> 64, tmo |-> 1000]

\* before the application's first call the bytes of one frame, valid or
\* damaged, arrive at the server
LinkArrives ==
    /\ lnk["srv"].sent = <<>>
    /\ ncalls = 0 /\ nstreams = 0 /\ reglog["srv"] = <<>>
    /\ \/ \E payload \in {<<SOF, SOD, EOF_, SOF>>, MaxPayload} : LinkSendFrame("srv", payload)
       \/ \E kind \in {"lensmall", "lenbig"} : LinkSendDamaged("srv", ReqPingPayload, kind)

\* the server's RX thread feeds them to the parser; the calls follow
NextLen ==
    \/ LinkArrives
    \/ phy["srv"] # <<>> /\ rpc_link_feed_bytes("srv", Len(phy["srv"]))
    \/ /\ phy["srv"] = <<>>
       /\ \/ \E in \in {InPing, InMaxMsg, InOverMsg} : ReqCall(1, in, MaxCalls)
          \/ RequestWrap(1)
          \/ nstreams < 2 /\ rpc_trans_stream(2, [name |-> NAME_PING])
          \/ Register
          \/ \E n \in Node : Pipeline(n)

SpecLen == Init /\ [][NextLen]_vars

(* ------------------------------------------------------------------ *)
(* C25                                                                  *)
(* ------------------------------------------------------------------ *)

\* C25: every payload in qLinkToTrans and in qTransToLink has a length
\* within [MIN_PAYLOAD_SIZE, MAX_PAYLOAD_SIZE]
C25_PayloadLenInRange ==
    \A n \in Node :
        /\ \A i \in 1..Len(qLinkToTrans[n]) :
              /\ Len(qLinkToTrans[n][i]) >= MIN_PAYLOAD_SIZE
              /\ Len(qLinkToTrans[n][i]) <= MAX_PAYLOAD_SIZE
        /\ \A i \in 1..Len(qTransToLink[n]) :
              /\ Len(qTransToLink[n][i]) >= MIN_PAYLOAD_SIZE
              /\ Len(qTransToLink[n][i]) <= MAX_PAYLOAD_SIZE

\* the server's qLinkToTrans holds a payload of the greatest length sent by
\* the parser and the request of the greatest length, and its qTransToLink
\* the worker's reply to a request
C25_Witness ==
    /\ Len(qLinkToTrans["srv"]) = 2
    /\ \E i, j \in 1..2 :
          /\ qLinkToTrans["srv"][i] = MaxPayload
          /\ Len(qLinkToTrans["srv"][j]) = MAX_PAYLOAD_SIZE
          /\ rpc_trans_parse_msg(qLinkToTrans["srv"][j]).type = MSG_REQ
    /\ lnk["srv"].got = <<MaxPayload>>

(* ------------------------------------------------------------------ *)
(* rpc_link_build_frame on payloads of every length                     *)
(* ------------------------------------------------------------------ *)

\* a frame builder that reports success for every payload
rpc_link_build_frame_rc_ok(payload) == RPC_SUCCESS

\* the value rpc_link_build_frame returns (rpc_phy_send succeeding)
rpc_link_build_frame_rc(payload) ==
    IF Len(payload) > MAX_PAYLOAD_SIZE \/ Len(payload) < MIN_PAYLOAD_SIZE
    THEN RPC_ERROR ELSE RPC_SUCCESS

\* payloads of MIN_PAYLOAD_SIZE - 1, MIN_PAYLOAD_SIZE, 7, MAX_PAYLOAD_SIZE and
\* MAX_PAYLOAD_SIZE + 1 bytes
BuildPayloads ==
    {SubSeq(MaxPayload, 1, MIN_PAYLOAD_SIZE - 1), SubSeq(MaxPayload, 1, MIN_PAYLOAD_SIZE),
     ReqPingPayload, MaxPayload, MaxPayload \o <<1>>}

\* what rpc_link_build_frame hands to rpc_phy_send for each of them
BuiltFrameOf == [payload \in BuildPayloads |-> rpc_link_build_frame(payload)]

\* the peer calls rpc_link_build_frame(payload, len): what it hands to
\* rpc_phy_send, if anything, enters the pipe
LinkBuildFrame(n, payload) ==
    /\ phy[n] = <<>>
    /\ Len(lnk[n].sent) < MaxLinkItems
    /\ LET frame == BuiltFrameOf[payload] IN
       /\ phy' = [phy EXCEPT ![n] = @ \o frame]
       /\ lnk' = [lnk EXCEPT ![n].sent = Append(@,
              [kind |-> IF frame = <<>> THEN "rejected" ELSE "frame", payload |-> payload,
               rc |-> rpc_link_build_frame_rc(payload), wrote |-> frame])]
    /\ UNCHANGED <<s_next_seq, s_wait, s_reg, qLinkToTrans, qTransToLink, qRpcRequests,
                   wire, caller, trans, worker, ncalls, nstreams, handled, lost, tev,
                   P, reglog, codec>>

NextFrame ==
    \/ \E payload \in BuildPayloads : LinkBuildFrame("srv", payload)
    \/ \E k \in 1..MaxChunk : rpc_link_feed_bytes("srv", k)

SpecFrame == Init /\ [][NextFrame]_vars

(* ------------------------------------------------------------------ *)
(* C26                                                                  *)
(* ------------------------------------------------------------------ *)

\* the frame the claim describes for a payload
C26_Frame(payload) ==
    LET L == Len(payload) + 3
        hdr == <<SOF, L % 256, L \div 256>>
    IN  hdr \o <<crc8_compute(hdr, 3, CRC8_INIT, CRC8_POLY), SOD>> \o payload
            \o <<crc8_compute(<<SOD>> \o payload, Len(payload) + 1, CRC8_INIT, CRC8_POLY),
                 EOF_>>

C26_FrameOf == [payload \in BuildPayloads |-> C26_Frame(payload)]

\* every call returned RPC_ERROR and wrote nothing for a payload shorter than
\* MIN_PAYLOAD_SIZE or longer than MAX_PAYLOAD_SIZE, and otherwise returned
\* RPC_SUCCESS and wrote SOF, len_lo, len_hi, hdr_crc, SOD, payload, pkt_crc, EOF
C26_Calls ==
    \A i \in 1..Len(lnk["srv"].sent) :
        LET e == lnk["srv"].sent[i]
            len == Len(e.payload)
        IN  IF len < MIN_PAYLOAD_SIZE \/ len > MAX_PAYLOAD_SIZE
            THEN e.rc = RPC_ERROR /\ e.wrote = <<>>
            ELSE e.rc = RPC_SUCCESS /\ e.wrote = C26_FrameOf[e.payload]

\* the bytes a call wrote are what the call adds to the pipe, in one piece
C26_OneWrite ==
    Len(lnk'["srv"].sent) = Len(lnk["srv"].sent) + 1 =>
        phy'["srv"] = phy["srv"] \o lnk'["srv"].sent[Len(lnk'["srv"].sent)].wrote

\* C26: rpc_link_build_frame returns RPC_ERROR and writes nothing to PHY for
\* a payload length outside [MIN_PAYLOAD_SIZE, MAX_PAYLOAD_SIZE]; otherwise
\* it writes, in one PHY write, SOF, len_lo, len_hi, hdr_crc, SOD, payload,
\* pkt_crc, EOF with the length field payload_len + 3, hdr_crc the CRC8 of
\* the first three bytes and pkt_crc the CRC8 of SOD and the payload
C26_BuildFrame == []C26_Calls /\ [][C26_OneWrite]_vars

\* a payload one byte too short and one a byte too long were rejected, and
\* the frame of the longest payload was written and has been read whole
C26_Witness ==
    /\ Len(lnk["srv"].sent) = 3
    /\ Len(lnk["srv"].sent[1].payload) = MIN_PAYLOAD_SIZE - 1
    /\ Len(lnk["srv"].sent[2].payload) = MAX_PAYLOAD_SIZE + 1
    /\ lnk["srv"].sent[3].payload = MaxPayload
    /\ Len(lnk["srv"].sent[3].wrote) = MAX_PAYLOAD_SIZE + 7
    /\ phy["srv"] = <<>>
    /\ lnk["srv"].got = <<MaxPayload>>

(* ------------------------------------------------------------------ *)
(* The length returned by rpc_trans_build_msg                           *)
(* ------------------------------------------------------------------ *)

\* the message types, names and arguments handed to the builder: every
\* type of the protocol and two bytes that are none, names one byte
\* shorter and one byte longer than allowed, arguments of the greatest
\* size and one byte more, and the NULL argument pointer of a caller that
\* passes a length with it (rpc_stream("ping", NULL, 5))
BuildTypes == MsgTypes \cup {0, 255}
BuildNames == {<<>>, [i \in 1..MIN_FUNC_NAME_LEN |-> 97], NAME_PING, MaxName,
               [i \in 1..(MAX_FUNC_NAME_LEN + 1) |-> 97]}
BuildArgs == {[args |-> NULL_BYTES, alen |-> 0],
              [args |-> NULL_BYTES, alen |-> 5],
              [args |-> <<7, 0, 9>>, alen |-> 3],
              [args |-> <<7, 0, 9>>, alen |-> 0],
              [args |-> [i \in 1..MAX_FUNC_ARGS_RESP_SIZE |-> 1],
               alen |-> MAX_FUNC_ARGS_RESP_SIZE],
              [args |-> BigArgs, alen |-> MAX_FUNC_ARGS_RESP_SIZE + 1]}

\* lp.payload_len = rpc_trans_build_msg(type, seq, name, args, args_len,
\*                                      lp.payload, sizeof(lp.payload))
BuildMsg(type, seq, name, a) ==
    /\ codec.pc = "idle"
    /\ codec' = [Codec0 EXCEPT !.pc = "built", !.type = type, !.seq = seq,
                               !.name = name, !.args = a.args, !.alen = a.alen,
                               !.out = rpc_trans_build_msg(type, seq, name, a.args,
                                                           a.alen, MAX_PAYLOAD_SIZE)]
    /\ UNCHANGED <<s_next_seq, s_wait, s_reg, qLinkToTrans, qTransToLink, qRpcRequests,
                   wire, caller, trans, worker, ncalls, nstreams, handled, lost, tev,
                   P, phy, lnk, reglog>>

NextBuild ==
    \/ \E type \in BuildTypes, seq \in {0, 1}, name \in BuildNames, a \in BuildArgs :
           BuildMsg(type, seq, name, a)
    \/ CodecParse

SpecBuild == Init /\ [][NextBuild]_vars

\* the four conditions under which the builder is said to return 0
C27_Rejected ==
    LET nlen == Len(codec.name)
        total == TYPE_MSG_SIZE + SEQ_MSG_SIZE + nlen + TERM_SIZE + codec.alen
    IN  \/ codec.type \notin MsgTypes
        \/ nlen < MIN_FUNC_NAME_LEN \/ nlen > MAX_FUNC_NAME_LEN
        \/ codec.alen > MAX_FUNC_ARGS_RESP_SIZE
        \/ total < MIN_PAYLOAD_SIZE \/ total > MAX_PAYLOAD_SIZE

\* C27: rpc_trans_build_msg returns 0 when the type is none of REQ, RESP,
\* ERR, STREAM, when the name length is outside [MIN_FUNC_NAME_LEN,
\* MAX_FUNC_NAME_LEN], when the argument length exceeds
\* MAX_FUNC_ARGS_RESP_SIZE or when the total is outside [MIN_PAYLOAD_SIZE,
\* MAX_PAYLOAD_SIZE]; in every other case the returned length is
\* 2 + name length + 1 + argument length.
C27_BuildLength ==
    codec.pc # "idle" =>
        IF C27_Rejected THEN Len(codec.out) = 0
        ELSE Len(codec.out) = TYPE_MSG_SIZE + SEQ_MSG_SIZE + Len(codec.name)
                                + TERM_SIZE + codec.alen

\* the same statement for the calls that pass their arguments by a pointer
\* that is not NULL, or pass the length 0
C27_BuildLengthOfArgs ==
    (codec.pc # "idle" /\ ~(codec.args = NULL_BYTES /\ codec.alen > 0)) =>
        IF C27_Rejected THEN Len(codec.out) = 0
        ELSE Len(codec.out) = TYPE_MSG_SIZE + SEQ_MSG_SIZE + Len(codec.name)
                                + TERM_SIZE + codec.alen

\* a message of the greatest length was built and a call of each rejected
\* kind is among the reachable ones
C27_Witness ==
    /\ codec.pc = "built"
    /\ codec.type = MSG_RESP
    /\ codec.name = MaxName
    /\ codec.alen = MAX_FUNC_ARGS_RESP_SIZE
    /\ Len(codec.out) = MAX_PAYLOAD_SIZE

(* ------------------------------------------------------------------ *)
(* Payloads that rpc_trans_parse_msg rejects                            *)
(* ------------------------------------------------------------------ *)

\* payloads of a length the link layer accepts, with the sequence number
\* of the first call, that fail one check of rpc_trans_parse_msg each: a
\* type byte that is no message type, no zero byte after the name, an
\* empty name, a name of MAX_FUNC_NAME_LEN + 1 bytes, arguments of
\* MAX_FUNC_ARGS_RESP_SIZE + 1 bytes
MalformedOf(type) ==
    {<<type, 1, 112, 105>>,
     <<type, 1, 0, 7>>,
     <<type, 1>> \o [i \in 1..(MAX_FUNC_NAME_LEN + 1) |-> 97] \o <<0>>,
     <<type, 1, 97, 0>> \o BigArgs}
MalformedPayloads ==
    {<<0, 1, 112, 0>>, <<SOF, 1, 112, 0>>}
        \cup MalformedOf(MSG_REQ) \cup MalformedOf(MSG_RESP)
        \cup MalformedOf(MSG_ERR) \cup MalformedOf(MSG_STREAM)

\* the parser of node n's link layer has checked a frame of the pipe and
\* its payload is the next one ThreadRX sends to qLinkToTrans
LinkPayloadArrives(n, payload) ==
    /\ lnk[n].sent = <<>>
    /\ Len(wire[Peer(n)]) < WireCap
    /\ wire' = [wire EXCEPT ![Peer(n)] = Append(@, payload)]
    /\ lnk' = [lnk EXCEPT ![n].sent = Append(@, [kind |-> "payload", payload |-> payload])]
    /\ UNCHANGED <<s_next_seq, s_wait, s_reg, qLinkToTrans, qTransToLink, qRpcRequests,
                   caller, trans, worker, ncalls, nstreams, handled, lost, tev,
                   P, phy, reglog, codec>>

NextMalformed ==
    \/ ReqCall(1, InPing, MaxCalls)
    \/ RequestWrap(1)
    \/ \E n \in Node, payload \in MalformedPayloads : LinkPayloadArrives(n, payload)
    \/ Register
    \/ \E n \in Node : Pipeline(n)

SpecMalformed == Init /\ [][NextMalformed]_vars

\* C28: a payload that fails rpc_trans_parse_msg is dropped by the
\* transport worker with no effect: the step of ThreadTrans that takes it
\* from q_link_to_trans completes no waiter, gives no semaphore and
\* enqueues nothing to q_requests or q_trans_to_link.
C28_Step ==
    \A n \in Node :
        (/\ trans[n].pc = "recv"
         /\ qLinkToTrans[n] # <<>>
         /\ Head(qLinkToTrans[n]) \in MalformedPayloads
         /\ qLinkToTrans'[n] = Tail(qLinkToTrans[n]))
        => /\ s_wait' = s_wait
           /\ qRpcRequests' = qRpcRequests
           /\ qTransToLink' = qTransToLink
           /\ trans' = trans
           /\ caller' = caller
           /\ handled' = handled
           /\ lost' = lost
C28_MalformedDropped == [][C28_Step]_vars

\* a malformed RESP carrying the sequence number of a call that is waiting
\* has been taken by the client's ThreadTrans and rejected by the parser:
\* the call still waits and its slot is in use and not done
C28_Witness ==
    /\ tev["cli"].kind = "parsefail"
    /\ lnk["cli"].sent # <<>>
    /\ lnk["cli"].sent[1].payload \in MalformedOf(MSG_RESP)
    /\ ~rpc_trans_parse_msg(lnk["cli"].sent[1].payload).ok
    /\ qLinkToTrans["cli"] = <<>> /\ wire["srv"] = <<>>
    /\ caller[1].pc = "wait" /\ caller[1].seq = 1
    /\ s_wait["cli"][caller[1].w].in_use
    /\ s_wait["cli"][caller[1].w].done = 0

(* ------------------------------------------------------------------ *)
(* qRpcRequests full: streams fill the server's queue, then a request   *)
(* ------------------------------------------------------------------ *)

NextFull ==
    \/ /\ nstreams >= Q_RPC_REQUEST_DEPTH
       /\ ReqCall(1, InPing, MaxCalls)
    \/ RequestWrap(1)
    \/ rpc_trans_stream(2, [name |-> NAME_PING])
    \/ Register
    \/ \E n \in Node : Pipeline(n)

SpecFull == Init /\ [][NextFull]_vars

\* ThreadTrans of node n takes a REQ or STREAM while qRpcRequests is full
C29_TakesWhenFull(n) ==
    /\ trans[n].pc = "recv"
    /\ qLinkToTrans[n] # <<>>
    /\ qLinkToTrans'[n] = Tail(qLinkToTrans[n])
    /\ Head(qLinkToTrans[n])[1] \in {MSG_REQ, MSG_STREAM}
    /\ Len(qRpcRequests[n]) = Q_RPC_REQUEST_DEPTH

\* that step leaves qRpcRequests, the workers, the reply queue and the
\* waiters as they are, and ThreadTrans is back at os_queue_recv
C29_DropStep ==
    \A n \in Node :
        C29_TakesWhenFull(n)
        => /\ qRpcRequests' = qRpcRequests
           /\ handled' = handled
           /\ worker' = worker
           /\ qTransToLink' = qTransToLink
           /\ s_wait' = s_wait
           /\ caller' = caller
           /\ trans'[n].pc = "recv"

\* a dropped message is never handled and never answered: no worker has
\* processed it, no RESP or ERR with the sequence number of a dropped REQ
\* exists, the waiter of its call is not completed and the call ends by
\* timeout only
C29_NeverAnswered ==
    /\ \A n \in Node : Len(qRpcRequests[n]) <= Q_RPC_REQUEST_DEPTH
    /\ \A i \in 1..Len(lost["srv"]) :
          LET e == lost["srv"][i] IN
          /\ e.qlen = Q_RPC_REQUEST_DEPTH
          /\ \A j \in 1..Len(handled["srv"]) :
                ~(handled["srv"][j].type = e.type /\ handled["srv"][j].seq = e.seq
                    /\ handled["srv"][j].args = e.args)
          /\ \A j \in 1..Len(qRpcRequests["srv"]) :
                ~(qRpcRequests["srv"][j].type = e.type /\ qRpcRequests["srv"][j].seq = e.seq
                    /\ qRpcRequests["srv"][j].args = e.args)
          /\ e.type = MSG_REQ =>
                /\ \A m \in PayloadsAt("srv") \cup PayloadsAt("cli") :
                      ~(m[1] \in {MSG_RESP, MSG_ERR} /\ m[2] = e.seq)
                /\ \A k \in Workers : worker["srv"][k].lp = <<>>
                                        \/ worker["srv"][k].lp[2] # e.seq
                /\ \A c \in Callers :
                      /\ (caller[c].pc \in {"wait", "timedout"} /\ caller[c].seq = e.seq)
                            => s_wait["cli"][caller[c].w].done = 0
                      /\ (caller[c].pc = "done" /\ caller[c].how # "stream")
                            => caller[c].how = "timeout"

LinkWriteFrame(n, payload) ==
    /\ Len(lnk[n].sent) < Q_LINK_TO_TRANS_DEPTH + 2
    /\ phy' = [phy EXCEPT ![n] = @ \o FrameOf[payload]]
    /\ lnk' = [lnk EXCEPT ![n].sent = Append(@, [kind |-> "frame", payload |-> payload])]
    /\ UNCHANGED <<s_next_seq, s_wait, s_reg, qLinkToTrans, qTransToLink, qRpcRequests,
                   wire, caller, trans, worker, ncalls, nstreams, handled, lost, tev,
                   P, reglog, codec>>

\* one turn of ThreadRX's loop: rpc_phy_receive(&b, 1) and
\* rpc_link_feed_bytes(&b, 1).  When the byte ends a frame the payload is
\* sent with OS_WAIT_FOREVER: the thread stays in os_queue_send while the
\* queue is full, the parser being reset only after the send
ThreadRXByte(n) ==
    /\ lnk[n].rx.pc = "read"
    /\ phy[n] # <<>>
    /\ phy' = [phy EXCEPT ![n] = Tail(@)]
    /\ LET r == LinkFeedByte(P[n], Head(phy[n])) IN
       IF r.out = <<>>
       THEN /\ P' = [P EXCEPT ![n] = r.p]
            /\ UNCHANGED <<qLinkToTrans, lnk>>
       ELSE IF os_queue_send_waits(qLinkToTrans[n], Q_LINK_TO_TRANS_DEPTH, TRUE)
       THEN /\ lnk' = [lnk EXCEPT ![n].rx = [@ EXCEPT !.pc = "emit", !.lp = r.out[1],
                                                        !.waits = @ + 1]]
            /\ UNCHANGED <<qLinkToTrans, P>>
       ELSE IF os_queue_full(qLinkToTrans[n], Q_LINK_TO_TRANS_DEPTH)
       THEN /\ P' = [P EXCEPT ![n] = r.p]
            /\ UNCHANGED <<qLinkToTrans, lnk>>
       ELSE /\ P' = [P EXCEPT ![n] = r.p]
            /\ qLinkToTrans' = [qLinkToTrans EXCEPT ![n] = os_queue_send(@, r.out[1])]
            /\ lnk' = [lnk EXCEPT ![n].got = Append(@, r.out[1])]
    /\ UNCHANGED <<s_next_seq, s_wait, s_reg, qTransToLink, qRpcRequests, wire, caller,
                   trans, worker, ncalls, nstreams, handled, lost, tev, reglog, codec>>

\* the queue has room again: os_queue_send stores the payload and returns,
\* rpc_link_reset_parser, and ThreadRX goes back to rpc_phy_receive
ThreadRXEmit(n) ==
    /\ lnk[n].rx.pc = "emit"
    /\ ~os_queue_full(qLinkToTrans[n], Q_LINK_TO_TRANS_DEPTH)
    /\ qLinkToTrans' = [qLinkToTrans EXCEPT ![n] = os_queue_send(@, lnk[n].rx.lp)]
    /\ P' = [P EXCEPT ![n] = LinkFeedByte(@, EOF_).p]
    /\ lnk' = [lnk EXCEPT ![n].got = Append(@, lnk[n].rx.lp),
                          ![n].rx = [@ EXCEPT !.pc = "read", !.lp = <<>>]]
    /\ UNCHANGED <<s_next_seq, s_wait, s_reg, qTransToLink, qRpcRequests, wire, caller,
                   trans, worker, ncalls, nstreams, handled, lost, tev, phy, reglog, codec>>

NextBackPressure ==
    \/ \E payload \in {<<SOF, SOD, EOF_, SOF>>, ReqPingPayload} : LinkWriteFrame("srv", payload)
    \/ ThreadRXByte("srv")
    \/ ThreadRXEmit("srv")
    \/ LinkDrain("srv")

SpecBackPressure == Init /\ [][NextBackPressure]_vars

\* the payloads of the frames written to node n's pipe, in the order written
RECURSIVE PayloadsOf(_)
PayloadsOf(items) ==
    IF items = <<>> THEN <<>> ELSE <<Head(items).payload>> \o PayloadsOf(Tail(items))

IsPrefix(a, b) == Len(a) <= Len(b) /\ a = SubSeq(b, 1, Len(a))
IsSuffix(a, b) == Len(a) <= Len(b) /\ a = SubSeq(b, Len(b) - Len(a) + 1, Len(b))

\* the payloads ThreadRX has sent or is sending are the payloads of the
\* first frames written, in order; the queue holds the latest of those sent
\* and no more than its depth; with every byte read, all have been sent
C30_DeliveredInOrder ==
    \A n \in Node :
        LET pend == IF lnk[n].rx.pc = "emit" THEN <<lnk[n].rx.lp>> ELSE <<>> IN
        /\ Len(qLinkToTrans[n]) <= Q_LINK_TO_TRANS_DEPTH
        /\ IsPrefix(lnk[n].got \o pend, PayloadsOf(lnk[n].sent))
        /\ IsSuffix(qLinkToTrans[n], lnk[n].got)
        /\ (phy[n] = <<>> /\ lnk[n].rx.pc = "read")
              => lnk[n].got = PayloadsOf(lnk[n].sent)

\* while ThreadRX is in os_queue_send with the queue full, no byte leaves
\* the pipe and the parser stays as it is
C30_BlockedStep ==
    \A n \in Node :
        (lnk[n].rx.pc = "emit" /\ Len(qLinkToTrans[n]) = Q_LINK_TO_TRANS_DEPTH)
        => /\ IsPrefix(phy[n], phy'[n])
           /\ P'[n] = P[n]
           /\ lnk'[n].got = lnk[n].got
           /\ lnk'[n].rx = lnk[n].rx

C30_Blocked ==
    /\ lnk["srv"].rx.pc = "emit"
    /\ Len(qLinkToTrans["srv"]) = Q_LINK_TO_TRANS_DEPTH
    /\ phy["srv"] # <<>>

(* ------------------------------------------------------------------ *)
(* The waiter table full: one thread more than there are slots          *)
(* ------------------------------------------------------------------ *)

\* the thread that calls once the others hold every slot
LastCaller == REQ_TABLE_SIZE + 1
TableFull == \A i \in Slots : s_wait["cli"][i].in_use
\* the waits of the holders run out while the allocating thread is within
\* its first attempts, or not before it has given up
MaxEarlyAttempt == 3
EarlyAttempts ==
    \A d \in AllCallers : caller[d].pc = "alloc" => caller[d].attempt <= MaxEarlyAttempt

\* the peer is silent: every call ends by its timeout
NextAlloc ==
    \/ \E c \in Slots : caller[c].pc = "idle" /\ ReqCall(c, InPing, 0)
    \/ caller[LastCaller].pc = "idle" /\ TableFull /\ ReqCall(LastCaller, InPing, 0)
    \/ /\ caller[1].pc = "done" /\ caller[1].how = "timeout" /\ TableFull
       /\ ReqCall(1, InPing, MaxCalls)
    \/ \E c \in AllCallers : rpc_trans_alloc_waiter(c)
    \/ \E c \in AllCallers : ReqInitBuild(c)
    \/ \E c \in AllCallers : ReqSend(c)
    \/ \E c \in AllCallers : EarlyAttempts /\ ReqTimeout(c)
    \/ \E c \in AllCallers : EarlyAttempts /\ ReqTimeoutFree(c)

SpecAlloc == Init /\ [][NextAlloc]_vars

\* an attempt of thread c: with a slot free it takes one and the call goes
\* on, whatever the number of attempts that failed before; with none free
\* the attempt is counted, and the 255th of them ends the call with an
\* error, the table and q_trans_to_link being left as they are
C31_Attempt(c) ==
    (caller[c].pc = "alloc" /\ caller'[c] # caller[c])
    => IF \E i \in Slots : ~s_wait["cli"][i].in_use
       THEN /\ caller'[c].pc = "init"
            /\ caller'[c].attempt = caller[c].attempt
            /\ caller'[c].w \in Slots
            /\ ~s_wait["cli"][caller'[c].w].in_use
            /\ s_wait'["cli"][caller'[c].w].in_use
            /\ s_wait'["cli"][caller'[c].w].seq = caller'[c].seq
       ELSE /\ s_wait' = s_wait
            /\ qTransToLink' = qTransToLink
            /\ caller'[c].attempt = caller[c].attempt + 1
            /\ IF caller'[c].attempt = ALLOC_ATTEMPTS
               THEN /\ caller'[c].pc = "done"
                    /\ caller'[c].rc = RPC_ERROR
                    /\ caller'[c].how = "nowaiter"
               ELSE caller'[c].pc = "alloc"

\* a call that is allocating has failed fewer than 255 attempts, and a call
\* that ended for want of a waiter has failed exactly 255, holds no slot
\* and has sent nothing
C31_Attempts ==
    \A c \in AllCallers :
        /\ caller[c].pc = "alloc" => caller[c].attempt \in 0..(ALLOC_ATTEMPTS - 1)
        /\ (caller[c].pc = "done" /\ caller[c].how = "nowaiter")
              => /\ caller[c].attempt = ALLOC_ATTEMPTS
                 /\ caller[c].lp = <<>>
                 /\ caller[c].seq = 0

\* C31: with every slot in use rpc_trans_alloc_waiter gives up after exactly
\* 255 attempts and returns an error, and rpc_trans_request fails without
\* enqueuing a message; the mutex is not held between attempts, so a slot
\* freed by another thread during the retries is taken by a later attempt
\* and the allocation succeeds.
C31_AllocRetries == []C31_Attempts /\ [][\A c \in AllCallers : C31_Attempt(c)]_vars

\* the last thread took, after failed attempts, a slot that a timed-out
\* call had freed; thread 1's next call then found the table full 255 times
C31_Witness ==
    /\ caller[LastCaller].pc \in {"init", "send", "wait"}
    /\ caller[LastCaller].attempt > 0
    /\ caller[1].pc = "done" /\ caller[1].how = "nowaiter"
    /\ caller[1].attempt = ALLOC_ATTEMPTS
    /\ ncalls = MaxCalls

(* ------------------------------------------------------------------ *)
(* C32                                                                  *)
(* ------------------------------------------------------------------ *)

\* the replies a node has built and not yet written to PHY
RepliesAt(n) ==
    {qTransToLink[n][i] : i \in 1..Len(qTransToLink[n])}
        \cup {wire[n][i] : i \in 1..Len(wire[n])}
        \cup {worker[n][k].lp : k \in {j \in Workers : worker[n][j].lp # <<>>}}

\* C32: when a handler returns with an output length above
\* MAX_FUNC_ARGS_RESP_SIZE the worker treats the result as an error whatever
\* code the handler returned: for a REQ the reply is an ERR with the body
\* "OVERFLOW", and none of the handler's output bytes is sent.
C32_OverflowInsurance ==
    \A n \in Node : \A i \in 1..Len(handled[n]) :
        LET e == handled[n][i] IN
        (e.called /\ e.holen > MAX_FUNC_ARGS_RESP_SIZE)
        => /\ e.rc = RPC_ERROR_OVERFLOW
           /\ e.olen = 0 /\ e.out = <<>>
           /\ e.type = MSG_REQ =>
                 /\ e.lp = <<MSG_ERR, e.seq>> \o e.name \o <<0>> \o STR_OVERFLOW
                 /\ \A m \in RepliesAt(n) \cup PayloadsAt(Peer(n)) :
                       (m[1] \in {MSG_RESP, MSG_ERR} /\ m[2] = e.seq) => m = e.lp
           /\ e.type = MSG_STREAM => e.lp = <<>>

\* a handler returned RPC_SUCCESS with an output length of 65 for a REQ; the
\* ERR "OVERFLOW" has reached the caller, who returned the generic error
C32_Witness ==
    /\ \E i \in 1..Len(handled["srv"]) :
          /\ handled["srv"][i].type = MSG_REQ
          /\ handled["srv"][i].hrc = RPC_SUCCESS
          /\ handled["srv"][i].holen = MAX_FUNC_ARGS_RESP_SIZE + 1
    /\ caller[1].pc = "done" /\ caller[1].how = "woken"
    /\ caller[1].by.type = MSG_ERR /\ caller[1].by.args = STR_OVERFLOW
    /\ caller[1].rc = RPC_ERROR

(* ------------------------------------------------------------------ *)
(* PHY errors: writes of ThreadTX and reads of ThreadRX that fail       *)
(* ------------------------------------------------------------------ *)

\* calls of rpc_phy_receive that fail in one run
MaxReadErrs == 2

\* a write that leaves the first bytes in the pipe when it fails
rpc_phy_send_partial(data, ok) == IF ok THEN data ELSE SubSeq(data, 1, 2)

\* rpc_phy_send(data, len): the bytes that enter the pipe; write() on the
\* FIFO takes the whole frame (at most 106 bytes, below PIPE_BUF) or
\* returns -1 and takes nothing
rpc_phy_send(data, ok) == IF ok THEN data ELSE <<>>

\* one turn of ThreadTX's loop: os_queue_recv(qTransToLink) and
\* rpc_link_build_frame, whose rpc_phy_send succeeds or fails; what was
\* handed to PHY for which payload is recorded with the receiving node
ThreadTXWrite(n, ok) ==
    /\ qTransToLink[n] # <<>>
    /\ qTransToLink' = [qTransToLink EXCEPT ![n] = Tail(@)]
    /\ LET m == Head(qTransToLink[n])
           frame == rpc_link_build_frame(m)
       IN  /\ phy' = [phy EXCEPT ![Peer(n)] = @ \o rpc_phy_send(frame, ok)]
           /\ lnk' = [lnk EXCEPT ![Peer(n)].sent = Append(@,
                 [kind |-> IF frame = <<>> THEN "rejected"
                           ELSE IF ok THEN "frame" ELSE "failed",
                  payload |-> m])]
    /\ UNCHANGED <<s_next_seq, s_wait, s_reg, qLinkToTrans, qRpcRequests, wire, caller,
                   trans, worker, ncalls, nstreams, handled, lost, tev, P, reglog, codec>>

\* rpc_phy_receive(&b, 1) returns an error: "continue"
ThreadRXReadFail(n) ==
    /\ lnk[n].rx.pc = "read"
    /\ lnk[n].rx.errs < MaxReadErrs
    /\ lnk' = [lnk EXCEPT ![n].rx.errs = @ + 1]
    /\ UNCHANGED <<s_next_seq, s_wait, s_reg, qLinkToTrans, qTransToLink, qRpcRequests,
                   wire, caller, trans, worker, ncalls, nstreams, handled, lost, tev,
                   P, phy, reglog, codec>>

\* thread 2 of the client sends streams; the client's ThreadTX writes them
\* to the pipe the server's ThreadRX reads
NextPhy ==
    \/ rpc_trans_stream(2, [name |-> NAME_PING])
    \/ \E ok \in BOOLEAN : ThreadTXWrite("cli", ok)
    \/ ThreadRXByte("srv")
    \/ ThreadRXEmit("srv")
    \/ ThreadRXReadFail("srv")
    \/ LinkDrain("srv")

SpecPhy == Init /\ [][NextPhy]_vars

\* the entries of a history that are of the given kind
RECURSIVE OfKind(_, _)
OfKind(items, kind) ==
    IF items = <<>> THEN <<>>
    ELSE (IF Head(items).kind = kind THEN <<Head(items)>> ELSE <<>>)
            \o OfKind(Tail(items), kind)

\* the k-th stream the client builds
StreamPayload(k) ==
    rpc_trans_build_msg(MSG_STREAM, 0, NAME_PING, <<k>>, 1, MAX_PAYLOAD_SIZE)

\* the frames of the streams of one run
FrameOfStream ==
    [m \in {StreamPayload(k) : k \in 1..MaxStreams} |-> rpc_link_build_frame(m)]

\* the payloads ThreadTX has taken, followed by those waiting in
\* q_trans_to_link, are the payloads enqueued, in order; the payloads the
\* peer's parser has emitted or is emitting are those of the writes that
\* succeeded, in order: a frame whose write failed is never seen again
C33_InOrder ==
    LET pend == IF lnk["srv"].rx.pc = "emit" THEN <<lnk["srv"].rx.lp>> ELSE <<>> IN
    /\ PayloadsOf(lnk["srv"].sent) \o qTransToLink["cli"]
          = [k \in 1..nstreams |-> StreamPayload(k)]
    /\ IsPrefix(lnk["srv"].got \o pend, PayloadsOf(OfKind(lnk["srv"].sent, "frame")))
    /\ (phy["srv"] = <<>> /\ lnk["srv"].rx.pc = "read")
          => /\ lnk["srv"].got = PayloadsOf(OfKind(lnk["srv"].sent, "frame"))
             /\ P["srv"].st = "WAIT_SOF"

\* a turn of ThreadTX takes the head of q_trans_to_link and hands its whole
\* frame to PHY in one write, or nothing when the write fails
C33_TxStep ==
    (qTransToLink["cli"] # <<>> /\ qTransToLink'["cli"] = Tail(qTransToLink["cli"]))
    => /\ Len(lnk'["srv"].sent) = Len(lnk["srv"].sent) + 1
       /\ LET e == lnk'["srv"].sent[Len(lnk'["srv"].sent)]
              frame == FrameOfStream[Head(qTransToLink["cli"])]
          IN  /\ e.payload = Head(qTransToLink["cli"])
              /\ e.kind \in {"frame", "failed"}
              /\ e.kind = "frame" => phy'["srv"] = phy["srv"] \o frame
              /\ e.kind = "failed" => phy'["srv"] = phy["srv"]

\* a read that fails feeds nothing: parser, pipe and queue stay as they are
\* and ThreadRX reads again
C33_ReadFailStep ==
    (lnk'["srv"].rx.errs # lnk["srv"].rx.errs)
    => /\ P' = P /\ phy' = phy /\ qLinkToTrans' = qLinkToTrans
       /\ lnk'["srv"].got = lnk["srv"].got
       /\ lnk'["srv"].rx.pc = "read"

\* C33: the TX worker frames payloads in the order they were enqueued to
\* q_trans_to_link, one PHY write per payload; when a PHY write fails the
\* frame is abandoned (not retried, not re-queued) and the worker goes on
\* to the next payload; when a PHY read fails the RX worker feeds nothing
\* to the parser and reads again, the parser state being unchanged.
C33_PhyErrors ==
    []C33_InOrder /\ [][C33_TxStep /\ C33_ReadFailStep]_vars

\* the write of the second stream failed, those of the first and third
\* succeeded and both were delivered, two reads having failed on the way
C33_Witness ==
    /\ Len(lnk["srv"].sent) = 3
    /\ lnk["srv"].sent[1].kind = "frame"
    /\ lnk["srv"].sent[2].kind = "failed"
    /\ lnk["srv"].sent[3].kind = "frame"
    /\ lnk["srv"].got = <<StreamPayload(1), StreamPayload(3)>>
    /\ lnk["srv"].rx.errs = MaxReadErrs
    /\ phy["srv"] = <<>>

(* ------------------------------------------------------------------ *)
(* What rpc_trans_stream returns                                        *)
(* ------------------------------------------------------------------ *)

\* names passed to rpc_stream: registered or not at the peer, NULL, empty
\* and one byte too long
StreamInputsAll ==
    {[name |-> NAME_PING], [name |-> NAME_LOG], [name |-> NULL_BYTES], [name |-> <<>>],
     [name |-> [i \in 1..(MAX_FUNC_NAME_LEN + 1) |-> 97]]}

\* the peer has no handler, the handler of examples/ping_pong.c or one that
\* returns an error; its queue of requests overflows when streams come fast
NextStreamRc ==
    \/ \E c \in Callers, in \in StreamInputsAll : rpc_trans_stream(c, in)
    \/ \E e \in {[name |-> NAME_PING, fn |-> "handler_fn_ping"],
                 [name |-> NAME_PING, fn |-> "handler_timeout"]} :
          Len(reglog["srv"]) < MaxRegs /\ register_fn("srv", e)
    \/ \E n \in Node : TransRecv(n)
    \/ \E n \in Node, k \in Workers : WorkerRecv(n, k)
    \/ \E n \in Node : ThreadTX(n)
    \/ \E n \in Node : ThreadRX(n)

SpecStreamRc == Init /\ [][NextStreamRc]_vars

\* the name passes the checks of rpc_trans_stream and of the builder
C34_NameValid(name) ==
    /\ name # NULL_BYTES
    /\ Len(name) >= MIN_FUNC_NAME_LEN
    /\ Len(name) <= MAX_FUNC_NAME_LEN

\* a call of rpc_trans_stream by thread c: the waiter table and the
\* sequence counter are untouched, q_trans_to_link gets the STREAM with
\* seq 0 at its tail when the name is valid and nothing otherwise, and the
\* value returned is RPC_SUCCESS in the first case and RPC_ERROR in the
\* second
C34_Call(c) ==
    (nstreams' = nstreams + 1 /\ caller'[c] # caller[c])
    => /\ s_wait' = s_wait
       /\ s_next_seq' = s_next_seq
       /\ caller'[c].pc = "done"
       /\ IF C34_NameValid(caller'[c].name)
          THEN /\ caller'[c].rc = RPC_SUCCESS
               /\ qTransToLink'["cli"] = qTransToLink["cli"]
                     \o << <<MSG_STREAM, 0>> \o caller'[c].name \o <<0, nstreams'>> >>
          ELSE /\ caller'[c].rc = RPC_ERROR
               /\ qTransToLink' = qTransToLink

\* whatever happens after the call has returned, at the peer or elsewhere,
\* leaves the value it returned as it is
C34_Returned(c) ==
    (caller[c].pc = "done" /\ caller[c].how = "stream" /\ nstreams' = nstreams)
    => caller'[c] = caller[c]

\* C34: rpc_trans_stream never touches the waiter table and never waits
\* on a semaphore: it performs at most one enqueue to q_trans_to_link and
\* returns; its return code depends only on local validation, build and
\* enqueue outcomes, and nothing the peer does (no handler registered,
\* handler error, dropped request) can change the value it returns.
C34_StreamLocal ==
    [][\A c \in Callers : C34_Call(c) /\ C34_Returned(c)]_vars

\* thread 1 was told RPC_ERROR for a name one byte too long and thread 2
\* RPC_SUCCESS for two streams: for one the peer's handler returned an
\* error, for the other the peer had no handler
C34_Witness ==
    /\ caller[1].pc = "done" /\ caller[1].how = "stream" /\ caller[1].rc = RPC_ERROR
    /\ Len(caller[1].name) = MAX_FUNC_NAME_LEN + 1
    /\ caller[2].pc = "done" /\ caller[2].how = "stream" /\ caller[2].rc = RPC_SUCCESS
    /\ nstreams = 3 /\ Len(handled["srv"]) = 2
    /\ \E i \in 1..Len(handled["srv"]) :
          handled["srv"][i].called /\ handled["srv"][i].rc = RPC_ERROR_TIMEOUT
    /\ \E i \in 1..Len(handled["srv"]) : handled["srv"][i].idx = 0
    /\ s_wait = [n \in Node |-> [i \in Slots |-> Waiter0]]

(* ------------------------------------------------------------------ *)
(* C35                                                                  *)
(* ------------------------------------------------------------------ *)

\* C35: whenever a waiter slot is free (in_use = false) its completion
\* semaphore is empty, also when a response is processed between a
\* caller's timed-out os_sem_take and its rpc_trans_free_waiter, and when
\* two responses arrive for one sequence number.
C35_FreeSlotSemEmpty ==
    \A n \in Node : \A i \in Slots :
        ~s_wait[n][i].in_use => s_wait[n][i].done = 0

\* the same in its other form: a call that wakes was completed by a RESP
\* or ERR carrying its own sequence number, processed while it waited
C35_WokenByOwnReply ==
    \A c \in Callers :
        (caller[c].pc = "done" /\ caller[c].how = "woken") => caller[c].own

(* ------------------------------------------------------------------ *)
(* The inbound pipeline under fair scheduling of ThreadRX and           *)
(* ThreadTrans; ThreadTX, the workers and the callers may stall         *)
(* ------------------------------------------------------------------ *)

\* every thread before c is blocked in its request
EarlierWaiting(c) == \A d \in 1..(c - 1) : caller[d].pc = "wait"

\* After the registration, the threads of the waiter table's size make one
\* request each, one after the other, and wait for the reply; then the last
\* thread sends streams.
NextInbound ==
    \/ \E c \in Slots : /\ caller[c].pc = "idle" /\ reglog["srv"] # <<>>
                         /\ EarlierWaiting(c) /\ ReqCall(c, InPing, 0)
    \/ \E c \in Slots : rpc_trans_alloc_waiter(c)
    \/ \E c \in Slots : ReqInitBuild(c)
    \/ \E c \in Slots : ReqSend(c)
    \/ \E c \in Slots : ReqWake(c)
    \/ /\ \A c \in Slots : caller[c].pc \in {"wait", "done"}
       /\ rpc_trans_stream(LastCaller, [name |-> NAME_PING])
    \/ Register
    \/ \E n \in Node : Pipeline(n)

InboundFairness ==
    \A n \in Node :
        /\ WF_vars(TransRecv(n))
        /\ WF_vars(TransComplete(n))
        /\ WF_vars(ThreadRX(n))

SpecInbound == Init /\ [][NextInbound]_vars /\ InboundFairness

\* C36: the inbound pipeline cannot deadlock: under fair scheduling of the
\* RX and the transport worker every payload enqueued to q_link_to_trans
\* is eventually dequeued, a full q_link_to_trans gets room again and a
\* frame waiting for the RX worker is eventually taken, even while
\* q_requests and q_trans_to_link are both full.
C36_InboundLive ==
    \A n \in Node :
        /\ (qLinkToTrans[n] # <<>>) ~> (qLinkToTrans[n] = <<>>)
        /\ (Len(qLinkToTrans[n]) = Q_LINK_TO_TRANS_DEPTH)
              ~> (Len(qLinkToTrans[n]) < Q_LINK_TO_TRANS_DEPTH)
        /\ (wire[Peer(n)] # <<>>) ~> (wire[Peer(n)] = <<>>)

\* the server's q_requests and q_trans_to_link are both full and a payload
\* has arrived in its q_link_to_trans
C36_Witness ==
    /\ Len(qRpcRequests["srv"]) = Q_RPC_REQUEST_DEPTH
    /\ Len(qTransToLink["srv"]) = Q_TRANS_TO_LINK_DEPTH
    /\ qLinkToTrans["srv"] # <<>>

(* ------------------------------------------------------------------ *)
(* C37                                                                  *)
(* ------------------------------------------------------------------ *)

\* the record handled[n][i] is a REQ whose reply is m
C37_ReplyOf(n, i, m) ==
    /\ handled[n][i].type = MSG_REQ
    /\ handled[n][i].lp = m

\* the replies built so far: a REQ record has one reply, of type RESP or ERR,
\* that begins with the record's seq and name; another record has none; and
\* every reply the node holds is the reply of a REQ record
C37_Replies ==
    \A n \in Node :
        /\ \A i \in 1..Len(handled[n]) :
              LET e == handled[n][i] IN
              IF e.type = MSG_REQ
              THEN /\ Len(e.lp) >= Len(e.name) + 3
                   /\ e.lp[1] \in {MSG_RESP, MSG_ERR}
                   /\ e.lp[2] = e.seq
                   /\ SubSeq(e.lp, 3, Len(e.name) + 2) = e.name
                   /\ e.lp[Len(e.name) + 3] = 0
              ELSE e.lp = <<>>
        /\ \A m \in RepliesAt(n) :
              m[1] \in {MSG_RESP, MSG_ERR}
              => \E i \in 1..Len(handled[n]) : C37_ReplyOf(n, i, m)

\* a worker's steps: the step that dequeues a record enqueues nothing and
\* leaves the one reply of the record, if it has one, with the worker;
\* a step that adds a reply to qTransToLink is the send of the reply a worker
\* holds, after which the worker holds none
C37_Step ==
    \A n \in Node :
        /\ handled'[n] # handled[n]
           => /\ Len(handled'[n]) = Len(handled[n]) + 1
              /\ qTransToLink'[n] = qTransToLink[n]
              /\ \E k \in Workers :
                    /\ worker[n][k] = Worker0
                    /\ worker'[n][k].lp = handled'[n][Len(handled'[n])].lp
                    /\ \A j \in Workers \ {k} : worker'[n][j] = worker[n][j]
        /\ (/\ Len(qTransToLink'[n]) > Len(qTransToLink[n])
            /\ qTransToLink'[n][Len(qTransToLink'[n])][1] \in {MSG_RESP, MSG_ERR})
           => /\ qTransToLink'[n] =
                    Append(qTransToLink[n], qTransToLink'[n][Len(qTransToLink'[n])])
              /\ handled'[n] = handled[n]
              /\ \E k \in Workers :
                    /\ worker[n][k].pc = "send"
                    /\ worker[n][k].lp = qTransToLink'[n][Len(qTransToLink'[n])]
                    /\ worker'[n][k] = Worker0
                    /\ \A j \in Workers \ {k} : worker'[n][j] = worker[n][j]

\* C37: for each REQ record a worker dequeues it enqueues at most one reply
\* to q_trans_to_link, the reply carries the record's sequence number and
\* function name unchanged, and no reply exists whose sequence did not come
\* from a REQ record.
C37_OneReplyPerReq == []C37_Replies /\ [][C37_Step]_vars

\* the server's workers have processed two STREAMs and, between them, a REQ
\* that they answered with a RESP; the reply has left the server and woken
\* the caller
C37_Witness ==
    /\ Len(handled["srv"]) = 3
    /\ handled["srv"][1].type = MSG_STREAM
    /\ handled["srv"][2].type = MSG_REQ /\ handled["srv"][2].lp[1] = MSG_RESP
    /\ handled["srv"][3].type = MSG_STREAM
    /\ RepliesAt("srv") = {}
    /\ caller[1].pc = "done" /\ caller[1].how = "woken" /\ caller[1].own
    /\ caller[1].by.type = MSG_RESP

(* ------------------------------------------------------------------ *)
(* Replies that arrive at a node with handlers: both nodes register the *)
(* ping handler, thread 1 makes a request, and each node also receives  *)
(* a RESP or an ERR nobody asked for                                    *)
(* ------------------------------------------------------------------ *)

\* well-formed replies for "ping": with the sequence number of thread 1's
\* request, and with one no request has
ReplyPayloads ==
    {<<t, q>> \o NAME_PING \o <<0>> \o b :
        t \in {MSG_RESP, MSG_ERR}, q \in {1, 2}, b \in {<<>>, STR_FAIL}}

RegisterBoth ==
    \E n \in Node, e \in RegInputs : Len(reglog[n]) < MaxRegs /\ register_fn(n, e)

NextReplies ==
    \/ RegisterBoth
    \/ ReqCall(1, InPing, MaxCalls)
    \/ RequestWrap(1)
    \/ \E n \in Node, payload \in ReplyPayloads : LinkPayloadArrives(n, payload)
    \/ \E n \in Node : Pipeline(n)

SpecReplies == Init /\ [][NextReplies]_vars

\* the records in q_requests and the records the workers have processed are
\* REQ and STREAM records, and every RESP or ERR a node's workers hold or
\* have enqueued answers a REQ record they processed
C38_OnlyRequests ==
    \A n \in Node :
        /\ \A i \in 1..Len(qRpcRequests[n]) :
              qRpcRequests[n][i].type \in {MSG_REQ, MSG_STREAM}
        /\ \A i \in 1..Len(handled[n]) : handled[n][i].type \in {MSG_REQ, MSG_STREAM}
        /\ \A m \in {qTransToLink[n][i] : i \in 1..Len(qTransToLink[n])}
                       \cup {worker[n][k].lp : k \in Workers} :
              (m # <<>> /\ m[1] \in {MSG_RESP, MSG_ERR})
              => \E i \in 1..Len(handled[n]) :
                    handled[n][i].type = MSG_REQ /\ handled[n][i].lp = m

\* ThreadTrans takes a well-formed RESP or ERR, or completes the waiter it
\* found for one: no record enters q_requests, no handler is invoked and
\* nothing is enqueued to q_trans_to_link
C38_ReplyStep ==
    \A n \in Node :
        (\/ /\ trans[n].pc = "recv"
            /\ qLinkToTrans[n] # <<>>
            /\ Head(qLinkToTrans[n])[1] \in {MSG_RESP, MSG_ERR}
            /\ qLinkToTrans'[n] = Tail(qLinkToTrans[n])
         \/ /\ trans[n].pc = "complete"
            /\ trans'[n] # trans[n])
        => /\ qRpcRequests' = qRpcRequests
           /\ qTransToLink' = qTransToLink
           /\ handled' = handled
           /\ worker' = worker
           /\ wire' = wire

\* a record enters q_requests only for a REQ or a STREAM that ThreadTrans takes
C38_EnterStep ==
    \A n \in Node :
        qRpcRequests'[n] # qRpcRequests[n] /\ Len(qRpcRequests'[n]) > Len(qRpcRequests[n])
        => /\ trans[n].pc = "recv"
           /\ qLinkToTrans[n] # <<>>
           /\ Head(qLinkToTrans[n])[1] \in {MSG_REQ, MSG_STREAM}
           /\ qRpcRequests'[n][Len(qRpcRequests'[n])].type = Head(qLinkToTrans[n])[1]

\* C38: only REQ and STREAM messages enter q_requests: a received RESP or
\* ERR, with a waiter or without one, invokes no handler and causes nothing
\* to be enqueued to q_trans_to_link.
C38_NoReplyToReply ==
    []C38_OnlyRequests /\ [][C38_ReplyStep /\ C38_EnterStep]_vars

\* both nodes have the ping handler; the client has taken the RESP for its
\* request and woken the caller, and a reply nobody asked for with no waiter;
\* the server has taken one too; no handler ran at the client, one at the server
C38_Witness ==
    /\ s_reg["cli"] # <<>> /\ s_reg["srv"] # <<>>
    /\ lnk["cli"].sent # <<>> /\ lnk["srv"].sent # <<>>
    /\ caller[1].pc = "done" /\ caller[1].how = "woken" /\ caller[1].own
    /\ tev["cli"].kind = "nowaiter"
    /\ tev["srv"].kind = "nowaiter"
    /\ handled["cli"] = <<>> /\ Len(handled["srv"]) = 1
    /\ \A n \in Node : qLinkToTrans[n] = <<>> /\ qTransToLink[n] = <<>> /\ wire[n] = <<>>

(* ------------------------------------------------------------------ *)
(* Calls of rpc_trans_request with arguments the validation rejects,    *)
(* between and during calls it accepts                                  *)
(* ------------------------------------------------------------------ *)

\* buf FALSE stands for a NULL resp_buf or a NULL resp_len
InvalidInputs ==
    {[InPing EXCEPT !.name = NULL_BYTES],
     [InPing EXCEPT !.name = <<>>],
     [InPing EXCEPT !.name = [i \in 1..(MAX_FUNC_NAME_LEN + 1) |-> 97]],
     [InPing EXCEPT !.buf = FALSE],
     [InPing EXCEPT !.cap = MAX_FUNC_ARGS_RESP_SIZE - 1],
     InSmallCap}

NextInvalid ==
    \/ \E c \in Callers, in \in InvalidInputs \cup {InPing} : ReqCall(c, in, 1)
    \/ \E c \in Callers : RequestWrap(c)
    \/ Register
    \/ \E n \in Node : Pipeline(n)

SpecInvalid == Init /\ [][NextInvalid]_vars

\* the arguments thread c passed fail the validation: NULL name, name length
\* outside [MIN_FUNC_NAME_LEN, MAX_FUNC_NAME_LEN], NULL resp_buf or resp_len,
\* *resp_len below MAX_FUNC_ARGS_RESP_SIZE
C39_InvalidArgs(r) ==
    \/ r.name = NULL_BYTES
    \/ Len(r.name) < MIN_FUNC_NAME_LEN
    \/ Len(r.name) > MAX_FUNC_NAME_LEN
    \/ ~r.hasbuf
    \/ r.cap < MAX_FUNC_ARGS_RESP_SIZE

\* the step in which thread c calls with invalid arguments
C39_Step ==
    \A c \in Callers :
        (ncalls' # ncalls /\ caller'[c] # caller[c] /\ C39_InvalidArgs(caller'[c]))
        => /\ caller'[c].pc = "done" /\ caller'[c].rc = RPC_ERROR
           /\ caller'[c].w = 0 /\ caller'[c].seq = 0
           /\ caller'[c].buf = <<>> /\ caller'[c].len = caller'[c].cap
           /\ s_wait' = s_wait
           /\ s_next_seq' = s_next_seq
           /\ qTransToLink' = qTransToLink
           /\ \A d \in Callers \ {c} : caller'[d] = caller[d]

\* a thread whose arguments are invalid has returned and takes no further step
C39_Returned ==
    \A c \in Callers :
        (caller[c].pc # "idle" /\ C39_InvalidArgs(caller[c]))
        => caller[c].pc = "done" /\ caller[c].how = "invalid" /\ caller[c].rc = RPC_ERROR

\* C39: a call to rpc_trans_request that fails argument validation changes
\* nothing: no waiter slot is allocated, the sequence counter does not
\* advance, nothing is enqueued to q_trans_to_link, and the caller's buffer
\* and *resp_len are left as they were.
C39_InvalidCallNoEffect == []C39_Returned /\ [][C39_Step]_vars

\* thread 2 has called with *resp_len = 63 and returned while the request of
\* thread 1 waits in slot 1: the table and the counter are those of one call
C39_Witness ==
    /\ caller[1].pc = "wait" /\ caller[1].w = 1
    /\ caller[2].pc = "done" /\ caller[2].how = "invalid"
    /\ caller[2].cap = MAX_FUNC_ARGS_RESP_SIZE - 1 /\ caller[2].len = caller[2].cap
    /\ s_wait["cli"][1].in_use /\ ~s_wait["cli"][2].in_use
    /\ s_next_seq["cli"] = 2
    /\ ncalls = 2

(* ------------------------------------------------------------------ *)
(* The parser on bytes of any kind: ThreadRX reads one byte at a time   *)
(* and feeds it; ThreadTrans takes the payloads                         *)
(* ------------------------------------------------------------------ *)

\* payload positions at which the bytes fed differ from run to run
MaxVaried == 1

\* the bytes the pipe may deliver next, by the parser's state: sentinels and
\* other bytes; length fields below, at and above the limits; the CRC
\* expected and a wrong one
ParserInputs(p) ==
    IF p.st = "WAIT_SOF" THEN {SOF, 0}
    ELSE IF p.st = "READ_LEN1"
    THEN {MIN_PKT_LEN - 1, MIN_PKT_LEN, MIN_PKT_LEN + 1, MAX_PKT_LEN, MAX_PKT_LEN + 1}
    ELSE IF p.st = "READ_LEN2" THEN {0, 1}
    ELSE IF p.st = "READ_HDRCRC"
    THEN {crc8_compute(p.hdr, 3, CRC8_INIT, CRC8_POLY), SOF}
    ELSE IF p.st = "WAIT_SOD" THEN {SOD, SOF}
    ELSE IF p.st = "READ_PAYLOAD"
    THEN (IF p.payload_pos < MaxVaried THEN {SOF, EOF_} ELSE {EOF_})
    ELSE IF p.st = "READ_PKTCRC"
    THEN {crc8_compute(<<SOD>> \o SubSeq(p.payload, 1, p.payload_pos),
                       p.payload_pos + 1, CRC8_INIT, CRC8_POLY), SOF}
    ELSE {EOF_, SOF}

\* ThreadRX: rpc_phy_receive(&b, 1) returns the byte b and
\* rpc_link_feed_bytes(&b, 1) feeds it; a payload is sent with
\* OS_WAIT_FOREVER, so the step waits while qLinkToTrans is full
ThreadRXFeed(n, b) ==
    /\ LET r == LinkFeedByte(P[n], b) IN
       /\ r.out # <<>> => ~os_queue_send_waits(qLinkToTrans[n], Q_LINK_TO_TRANS_DEPTH, TRUE)
       /\ P' = [P EXCEPT ![n] = r.p]
       /\ qLinkToTrans' = [qLinkToTrans EXCEPT ![n] = SendAll(@, r.out)]
    /\ UNCHANGED <<s_next_seq, s_wait, s_reg, qTransToLink, qRpcRequests, wire, caller,
                   trans, worker, ncalls, nstreams, handled, lost, tev,
                   phy, lnk, reglog, codec>>

NextParser ==
    \/ \E b \in ParserInputs(P["srv"]) : ThreadRXFeed("srv", b)
    \/ TransRecv("srv")

SpecParser == Init /\ [][NextParser]_vars

\* C40: in every reachable parser state, payload_pos <= length - 3 <=
\* MAX_PAYLOAD_SIZE whenever the parser is in READ_PAYLOAD, READ_PKT_CRC or
\* WAIT_EOF; so the parser never writes past its payload buffer, and in
\* READ_PAYLOAD the condition of the store holds, that is, the "Payload
\* overflow" branch is never taken.
C40_ParserBounds ==
    \A n \in Node :
        /\ P[n].st \in {"READ_PAYLOAD", "READ_PKTCRC", "WAIT_EOF"}
           => /\ P[n].payload_pos <= P[n].length - 3
              /\ P[n].length - 3 <= MAX_PAYLOAD_SIZE
        /\ P[n].st = "READ_PAYLOAD"
           => /\ P[n].payload_pos < MAX_PAYLOAD_SIZE
              /\ P[n].payload_pos < P[n].length - 3
        /\ Len(P[n].payload) <= MAX_PAYLOAD_SIZE

\* after a frame has been emitted, the parser has stored the last byte of a
\* payload of the largest size and its packet CRC has matched
C40_Witness ==
    /\ P["srv"].st = "WAIT_EOF"
    /\ P["srv"].length = MAX_PKT_LEN
    /\ P["srv"].payload_pos = MAX_PAYLOAD_SIZE
    /\ Len(P["srv"].payload) = MAX_PAYLOAD_SIZE
    /\ qLinkToTrans["srv"] # <<>>

====
